---------------------------- MODULE Spec2Model ----------------------------
(***************************************************************************)
(* The predicate-split passive clause container of the saturation core     *)
(* (Saturation/PredicateSplitPassiveClauseContainer.cpp): its constructor, *)
(* add / remove / popSelected, the simulation used by LRS and the limit    *)
(* updates, over inner age/weight queues.                                  *)
(*                                                                         *)
(* Queue indices are those of the source: 0 .. N-1.  A cutoff is held in   *)
(* tenths (5 is 0.5, 10 is 1.0); NaN is the float std::stof("nan") gives.  *)
(* The values of type int are 32-bit two's-complement numbers.             *)
(***************************************************************************)
EXTENDS Integers, Sequences, FiniteSets, Bags, TLC

\* ------------------------------------------------------------------ bounds
\* Longest list of ratios / cutoffs the constructor specification draws.
MaxLen == 3
\* Number of clauses of the population.
NumClauses == 2
\* A popSelected (simulationPopSelected) is taken only while the balances
\* (simulation balances) are, in sum, at most this far from 0.
MaxBalance == 3
\* Largest counter of ancestors of an inference.
MaxAncestors == 7
\* Greatest weight limit the LRS controller sets.
MaxWeightLimit == 3
\* A run of onLimitsUpdated starts only while fewer clauses than this have
\* been discarded.
MaxDiscarded == 2
\* Number of handlers that subscribe to the event.
MaxHandlers == 3
\* Greatest number of calls of fire under way at a time.
MaxFireDepth == 2

\* --------------------------------------------------------- 32-bit integers
\* INT_MAX of the type int of computeGCD / computeLCM.
IntMax == 2147483647
IntMin == (0 - IntMax) - 1

Abs(x) == IF x < 0 THEN 0 - x ELSE x

\* -x in 32 bits: INT_MIN is its own negation.
Neg32(x) == IF x = IntMin THEN IntMin ELSE 0 - x

\* (a * b) mod 2^32 as a signed 32-bit number, for 0 <= a, b <= IntMax;
\* computed on 16-bit and 8-bit limbs so that no intermediate value leaves
\* the 32-bit range.
UMul32(a, b) ==
  LET al == a % 65536
      ah == a \div 65536
      bl == b % 65536
      bh == b \div 65536
      t0 == (al % 256) * bl
      t1 == (al \div 256) * bl
      s  == (t1 % 256) * 256 + t0
      plo == s % 65536
      phi == (t1 \div 256) + (s \div 65536)
      cross == ((ah * bl) % 65536) + ((al * bh) % 65536)
      hi == (phi + cross) % 65536
  IN  IF hi >= 32768 THEN (hi - 65536) * 65536 + plo ELSE hi * 65536 + plo

\* a * b of two ints: the product, wrapped to 32 bits when it overflows.
Mul32(a, b) ==
  IF a = 0 \/ b = 0 THEN 0
  ELSE IF a = IntMin THEN (IF b % 2 = 0 THEN 0 ELSE IntMin)
  ELSE IF b = IntMin THEN (IF a % 2 = 0 THEN 0 ELSE IntMin)
  ELSE LET m == UMul32(Abs(a), Abs(b))
       IN  IF (a < 0) = (b < 0) THEN m ELSE Neg32(m)

\* a / b of two ints (b # 0): the quotient truncated towards zero.
CDiv(a, b) ==
  IF a = IntMin
    THEN (IF Abs(b) = 1 THEN IntMin
          ELSE LET q == ((IntMax \div Abs(b)) +
                         (IF (IntMax % Abs(b)) + 1 = Abs(b) THEN 1 ELSE 0))
               IN  IF b < 0 THEN q ELSE 0 - q)
  ELSE IF b = IntMin THEN 0
  ELSE LET q == Abs(a) \div Abs(b)
       IN  IF (a < 0) = (b < 0) THEN q ELSE 0 - q

\* a % b of two ints (b # 0): the remainder has the sign of a.
CRem(a, b) ==
  IF b = IntMin THEN (IF a = IntMin THEN 0 ELSE a)
  ELSE IF a = IntMin
    THEN LET r == ((IntMax % Abs(b)) + 1) % Abs(b) IN 0 - r
  ELSE LET r == Abs(a) % Abs(b)
       IN  IF a < 0 THEN 0 - r ELSE r

\* ----------------------------------------------------- computeGCD, computeLCM
RECURSIVE computeGCD(_, _)
computeGCD(a, b) == IF a = 0 THEN b ELSE computeGCD(CRem(b, a), a)

computeLCM(a, b) == CDiv(Mul32(a, b), computeGCD(a, b))

\* The least common multiple of two positive numbers, by its definition.
RECURSIVE LeastMultiple(_, _, _)
LeastMultiple(a, b, m) ==
  IF m % b = 0 THEN m ELSE LeastMultiple(a, b, m + a)


\* ------------------------------------------------------------------ floats
\* The float NaN: every ordered comparison with it is false.
NaN == 0 - 1000

\* x <= y on floats.
FLeq(x, y) == x # NaN /\ y # NaN /\ x <= y

\* ------------------------------------------------------------------- state
VARIABLES
  pc,                  \* "init" | "constructed" | "userError" | "undefined"
  optRatios,           \* inputRatios: the parsed option splitQueueRatios
  optCutoffs,          \* the parsed option splitQueueCutoffs
  splitQueueFadeIn,    \* _opt.splitQueueFadeIn()
  ageWeightRatio,      \* the option ageWeightRatio <<a, w>> of the inner queues
  isOutermost,         \* _isOutermost
  cutoffs,             \* _cutoffs,  indexed 0 .. N-1
  ratios,              \* _ratios: the internal weights
  balances,            \* _balances
  simulationBalances,  \* _simulationBalances
  simulationTaken,     \* the clauses marked as taken by the rehearsal
  queues,              \* _queues: the inner age/weight containers
  lastOp,              \* the last operation, its result and the events it fired
  evt,                 \* one event: BaseEvent::_handlers and the calls of fire under way
  indices,             \* the triples (term, literal, clause) held by the four term indices
  inference,           \* the counters of the inference bestQueueHeuristics is asked about
  store,               \* Clause::store() of every clause
  unprocessed,         \* UnprocessedClauseContainer::_data
  active,              \* the clauses added to the Active container and not removed, in the order added
  activeSize,          \* ActiveClauseContainer::_size
  gis,                 \* the entries of the generating literal index, "none" without such an index
  limits,              \* the Limits object: ageLimit, weightLimit
  lrs,                 \* the run of ActiveClauseContainer::onLimitsUpdated
  discardedNonRedundantClauses  \* env.statistics->discardedNonRedundantClauses

\* The state outside the predicate-split container.
saturationVars == <<evt, indices, inference, store, unprocessed, active, activeSize, gis,
                    limits, lrs, discardedNonRedundantClauses>>

vars == <<pc, optRatios, optCutoffs, splitQueueFadeIn, ageWeightRatio,
          isOutermost, cutoffs, ratios, balances, simulationBalances,
          simulationTaken, queues, lastOp, evt, indices, inference, store,
          unprocessed, active,
          activeSize, gis, limits, lrs, discardedNonRedundantClauses>>

NoClause == 0
NoIndex == 0 - 1
NoLimit == 0 - 1

\* The age limits the LRS controller sets.
AgeLimits == 0 .. 1

\* What an operation leaves behind for the observer: the clause it returned
\* or was given, the balance-selected queue, the queue the clause was taken
\* from, and the events fired, each with the set of queues that held its
\* clause at the moment of the fire.
Op(name, cl, q, cur, fired) ==
  [op |-> name, cl |-> cl, queueIndex |-> q, currIndex |-> cur, fired |-> fired,
   hasNext |-> FALSE]

\* -------------------------------------------------- the inner age/weight queue
\* A freshly constructed AWPassiveClauseContainer: no clause, both balances
\* 0, no limits.
AWNew ==
  [cls |-> <<>>, ageBalance |-> 0, weightBalance |-> 0,
   simAgeBalance |-> 0, simWeightBalance |-> 0,
   ageLimit |-> NoLimit, weightLimit |-> NoLimit]

\* -------------------------------------------------------------- constructor
\* The sanity checks of the loop body for index i and the following ones:
\* the first USER_ERROR raised, "none" when there is none.
RECURSIVE CheckEntries(_, _, _)
CheckEntries(inputRatios, cuts, i) ==
  IF i >= Len(inputRatios) THEN "none"
  ELSE LET v == inputRatios[i + 1]
           cutoff == cuts[i + 1]
       IN  IF v <= 0 THEN "ratio not positive"
           ELSE IF ~(FLeq(0, cutoff) /\ FLeq(cutoff, 10)) THEN "cutoff not in [0,1]"
           ELSE IF i > 0 /\ FLeq(cutoff, cuts[i]) THEN "cutoffs not increasing"
           ELSE CheckEntries(inputRatios, cuts, i + 1)

\* The mutant of UserError: the size check admits a single ratio.
UserError_OneRatio(inputRatios, cuts) ==
  IF Len(inputRatios) < 1 THEN "fewer than two ratios"
  ELSE IF Len(inputRatios) # Len(cuts) THEN "ratios and cutoffs differ in number"
  ELSE LET e == CheckEntries(inputRatios, cuts, 0)
       IN  IF e # "none" THEN e
           ELSE IF cuts[Len(cuts)] # 10 THEN "last cutoff not 1.0"
           ELSE "none"

\* The sanity checks for ratios and cutoffs, in the order of the code.
UserError(inputRatios, cuts) ==
  IF Len(inputRatios) < 2 THEN "fewer than two ratios"
  ELSE IF Len(inputRatios) # Len(cuts) THEN "ratios and cutoffs differ in number"
  ELSE LET e == CheckEntries(inputRatios, cuts, 0)
       IN  IF e # "none" THEN e
           ELSE IF cuts[Len(cuts)] # 10 THEN "last cutoff not 1.0"
           ELSE "none"

\* lcm after the loop over inputRatios[i .. ], entered with the value lcm.
RECURSIVE LcmLoop(_, _, _)
LcmLoop(inputRatios, lcm, i) ==
  IF i >= Len(inputRatios) THEN lcm
  ELSE LcmLoop(inputRatios, computeLCM(lcm, inputRatios[i + 1]), i + 1)

\* The mutant of InternalWeights: _ratios takes the ratios as given.
InternalWeights_AsGiven(inputRatios) ==
  [i \in 0 .. Len(inputRatios) - 1 |-> inputRatios[i + 1]]

\* _ratios as the initialisation loop fills it.
InternalWeights(inputRatios) ==
  LET lcm == LcmLoop(inputRatios, 1, 0)
  IN  [i \in 0 .. Len(inputRatios) - 1 |-> CDiv(lcm, inputRatios[i + 1])]

\* PredicateSplitPassiveClauseContainer::PredicateSplitPassiveClauseContainer
Constructor ==
  /\ pc = "init"
  /\ UNCHANGED saturationVars
  /\ LET e == UserError(optRatios, optCutoffs)
         n == Len(optRatios)
     IN  IF e # "none"
           THEN /\ pc' = "userError"
                /\ lastOp' = Op("constructor", NoClause, NoIndex, NoIndex, <<>>)
                /\ UNCHANGED <<cutoffs, ratios, balances, simulationBalances,
                               simulationTaken, queues>>
           ELSE /\ pc' = "constructed"
                /\ cutoffs' = [i \in 0 .. n - 1 |-> optCutoffs[i + 1]]
                /\ queues' = [i \in 0 .. n - 1 |-> AWNew]
                /\ ratios' = InternalWeights(optRatios)
                /\ balances' = [i \in 0 .. n - 1 |-> 0]
                /\ simulationBalances' = <<>>
                /\ simulationTaken' = {}
                /\ lastOp' = Op("constructor", NoClause, NoIndex, NoIndex, <<>>)
  /\ UNCHANGED <<optRatios, optCutoffs, splitQueueFadeIn, ageWeightRatio, isOutermost>>

\* ------------------------------------------------------------- the clauses
\* The clauses the saturation loop hands to the container, with the fields
\* the container reads: the counters of the inference, the age, the weight.
Clauses == 1 .. NumClauses

th_ancestors(cl) == cl - 1
all_ancestors(cl) == NumClauses - 1
age(cl) == cl % 2
weight(cl) == 1 + (cl % 3)

\* The weights of the literals of the clause, the selected ones first; the
\* weight of the clause is their sum.
LitWeights(cl) == IF cl % 2 = 1 THEN <<weight(cl)>> ELSE [k \in 1 .. weight(cl) |-> 1]

\* Clause::selected(): the number of selected literals.
selected(cl) == IF cl % 2 = 1 THEN Len(LitWeights(cl)) ELSE Len(LitWeights(cl)) - 1

\* Clause::getEffectiveWeight
getEffectiveWeight(cl) == weight(cl) + 1

\* ------------------------------------- the inner age/weight queue, continued
Range(seq) == {seq[k] : k \in DOMAIN seq}

Without(seq, cl) == SelectSeq(seq, LAMBDA x : x # cl)

AWIsEmpty(q) == q.cls = <<>>

AWAdd(q, cl) == [q EXCEPT !.cls = Append(@, cl)]

\* Removing a clause the queue does not hold changes nothing.
AWRemove(q, cl) == [q EXCEPT !.cls = Without(@, cl)]

\* The head of the age-ordered view of the clauses seq: the least age, the
\* earliest inserted among those.
FirstByAge(seq) ==
  LET k == CHOOSE k \in DOMAIN seq :
             /\ \A j \in DOMAIN seq : age(seq[k]) <= age(seq[j])
             /\ \A j \in 1 .. k - 1 : age(seq[j]) > age(seq[k])
  IN  seq[k]

\* The head of the weight-ordered view.
FirstByWeight(seq) ==
  LET k == CHOOSE k \in DOMAIN seq :
             /\ \A j \in DOMAIN seq : weight(seq[k]) <= weight(seq[j])
             /\ \A j \in 1 .. k - 1 : weight(seq[j]) > weight(seq[k])
  IN  seq[k]

\* The mutant of AWByAge: the weight side is chosen on a tie.
AWByAge_WeightOnTie(ageBalance, weightBalance) == ageBalance < weightBalance

\* The side whose balance is smaller is chosen (the age side on a tie).
AWByAge(ageBalance, weightBalance) == ageBalance <= weightBalance

\* The clause popSelected of a non-empty inner queue returns.
AWSelected(q) ==
  IF AWByAge(q.ageBalance, q.weightBalance)
    THEN FirstByAge(q.cls) ELSE FirstByWeight(q.cls)

\* The inner queue after its popSelected: the chosen side's balance grows by
\* the other side's ratio.
AWPopSelected(q) ==
  LET cl == AWSelected(q)
  IN  IF AWByAge(q.ageBalance, q.weightBalance)
        THEN [q EXCEPT !.cls = Without(@, cl),
                       !.ageBalance = @ + ageWeightRatio[2]]
        ELSE [q EXCEPT !.cls = Without(@, cl),
                       !.weightBalance = @ + ageWeightRatio[1]]

\* The rehearsal of one inner queue: it starts from the queue's balances and
\* takes clauses as popSelected would, touching neither the clauses nor the
\* balances of the queue.  A clause the rehearsal has taken carries a mark;
\* the mark is on the clause, so every inner queue that holds the clause
\* skips it (taken: the marked clauses).
AWSimulationInit(q) ==
  [q EXCEPT !.simAgeBalance = q.ageBalance,
            !.simWeightBalance = q.weightBalance]

AWSimulationRest(q, taken) == SelectSeq(q.cls, LAMBDA x : x \notin taken)

AWSimulationHasNext(q, taken) == AWSimulationRest(q, taken) # <<>>

AWSimulationSelected(q, taken) ==
  IF AWByAge(q.simAgeBalance, q.simWeightBalance)
    THEN FirstByAge(AWSimulationRest(q, taken))
    ELSE FirstByWeight(AWSimulationRest(q, taken))

AWSimulationPopSelected(q) ==
  IF AWByAge(q.simAgeBalance, q.simWeightBalance)
    THEN [q EXCEPT !.simAgeBalance = @ + ageWeightRatio[2]]
    ELSE [q EXCEPT !.simWeightBalance = @ + ageWeightRatio[1]]

\* The limits of an inner queue: NoLimit, or the greatest age and the
\* greatest weight it admits.
AWFulfilsAgeLimit(q, cl) == q.ageLimit = NoLimit \/ age(cl) <= q.ageLimit
AWFulfilsWeightLimit(q, cl) == q.weightLimit = NoLimit \/ weight(cl) <= q.weightLimit

AWSetLimitsToMax(q) == [q EXCEPT !.ageLimit = NoLimit, !.weightLimit = NoLimit]

\* The limits the rehearsal of an inner queue may arrive at.
LimitChoices == {[age |-> NoLimit, weight |-> NoLimit], [age |-> 0, weight |-> 1]}

AWSetLimits(q, lim) == [q EXCEPT !.ageLimit = lim.age, !.weightLimit = lim.weight]

\* A clause that fulfils neither limit of the queue is dropped from it.
AWOnLimitsUpdated(q) ==
  [q EXCEPT !.cls = SelectSeq(@, LAMBDA x :
                      AWFulfilsAgeLimit(q, x) \/ AWFulfilsWeightLimit(q, x))]

\* ------------------------------------------------------ bestQueueHeuristics
\* niceness as the fraction <<numerator, denominator>>.  The floats compared
\* are quotients of counters of at most a few units and cutoffs in tenths:
\* they differ by far more than the rounding of a float, so the comparison
\* of the fractions is the comparison of the floats.
\* The mutant of NicenessOf: the bound of the 0.8 case is that of the 0.5 case.
NicenessOf_SameBound(th, all) ==
  IF splitQueueFadeIn /\ th <= 2 THEN <<0, 1>>
  ELSE IF splitQueueFadeIn /\ th = 3 /\ all <= 6 THEN <<5, 10>>
  ELSE IF splitQueueFadeIn /\ th = 4 /\ all <= 6 THEN <<8, 10>>
  ELSE <<th, all>>

\* niceness of an inference with the counters th and all.
NicenessOf(th, all) ==
  IF splitQueueFadeIn /\ th <= 2 THEN <<0, 1>>
  ELSE IF splitQueueFadeIn /\ th = 3 /\ all <= 6 THEN <<5, 10>>
  ELSE IF splitQueueFadeIn /\ th = 4 /\ all <= 5 THEN <<8, 10>>
  ELSE <<th, all>>

\* niceness of the inference of the clause cl.
Niceness(cl) == NicenessOf(th_ancestors(cl), all_ancestors(cl))

\* The loop over the cutoffs from index i on.  Past the last cutoff the
\* function ends without a return statement; the number of queues stands
\* for that (no clause with th_ancestors <= all_ancestors gets there).
\* The mutant of BestQueueFrom: the comparison with the cutoff is strict.
RECURSIVE BestQueueFrom_Strict(_, _, _)
BestQueueFrom_Strict(nice, cuts, i) ==
  IF i \notin DOMAIN cuts THEN i
  ELSE IF nice[1] * 10 < cuts[i] * nice[2] THEN i
  ELSE BestQueueFrom_Strict(nice, cuts, i + 1)

RECURSIVE BestQueueFrom(_, _, _)
BestQueueFrom(nice, cuts, i) ==
  IF i \notin DOMAIN cuts THEN i
  ELSE IF nice[1] * 10 <= cuts[i] * nice[2] THEN i
  ELSE BestQueueFrom(nice, cuts, i + 1)

bestQueueHeuristics(cl) == BestQueueFrom(Niceness(cl), cutoffs, 0)

\* No inference.
NoInference == [th_ancestors |-> 0, all_ancestors |-> 1]

\* PredicateSplitPassiveClauseContainer::bestQueueHeuristics, called on the
\* inference inf.
bestQueueHeuristicsCall ==
  /\ pc = "constructed"
  /\ lastOp.op # "bestQueueHeuristics"
  /\ LET niceness == NicenessOf(inference.th_ancestors, inference.all_ancestors)
     IN  lastOp' = [op |-> "bestQueueHeuristics", niceness |-> niceness,
                    queueIndex |-> BestQueueFrom(niceness, cutoffs, 0)]
  /\ UNCHANGED <<pc, optRatios, optCutoffs, splitQueueFadeIn, ageWeightRatio,
                 isOutermost, cutoffs, ratios, balances, simulationBalances,
                 simulationTaken, queues>>
  /\ UNCHANGED saturationVars

\* ------------------------------------------------------------ the container
NumQueues == Cardinality(DOMAIN queues)

Holds(qs, i, cl) == cl \in Range(qs[i].cls)

\* The queues that hold the clause.
QueuesOf(qs, cl) == {i \in DOMAIN qs : Holds(qs, i, cl)}

\* The clauses the container holds.
Held(qs) == UNION {Range(qs[i].cls) : i \in DOMAIN qs}

Fired(event, cl, qs) == [event |-> event, clause |-> cl, inQueues |-> QueuesOf(qs, cl)]

\* PredicateSplitPassiveClauseContainer::isEmpty
isEmpty(qs) == \A i \in DOMAIN qs : AWIsEmpty(qs[i])

\* Bounds of the exploration: the balances stay near 0.
RECURSIVE SumAbs(_, _)
SumAbs(bal, i) == IF i \notin DOMAIN bal THEN 0 ELSE Abs(bal[i]) + SumAbs(bal, i + 1)

Near(bal) == SumAbs(bal, 0) <= MaxBalance

\* The mutant of AddFrom: the clause is added to its best queue only.
AddFrom_BestOnly(qs, cl, bestQueueIndex) ==
  [i \in DOMAIN qs |-> IF i = bestQueueIndex THEN AWAdd(qs[i], cl) ELSE qs[i]]

\* The loop that adds a clause to the queues bestQueueIndex .. N-1.
AddFrom(qs, cl, bestQueueIndex) ==
  [i \in DOMAIN qs |-> IF i >= bestQueueIndex THEN AWAdd(qs[i], cl) ELSE qs[i]]

\* The mutant of AddEvents: added is fired before the loop over the queues.
AddEvents_BeforeLoop(before, after, cl) ==
  IF isOutermost THEN <<Fired("added", cl, before)>> ELSE <<>>

\* The events add fires, and what their handlers find: before are the
\* queues at the call, after the queues when the loop has ended.
AddEvents(before, after, cl) ==
  IF isOutermost THEN <<Fired("added", cl, after)>> ELSE <<>>

\* PredicateSplitPassiveClauseContainer::add
add(cl) ==
  /\ pc = "constructed"
  /\ UNCHANGED saturationVars
  /\ cl \notin Held(queues)
  /\ LET qs == AddFrom(queues, cl, bestQueueHeuristics(cl))
     IN  /\ queues' = qs
         /\ lastOp' = Op("add", cl, NoIndex, NoIndex, AddEvents(queues, qs, cl))
  /\ UNCHANGED <<pc, optRatios, optCutoffs, splitQueueFadeIn, ageWeightRatio,
                 isOutermost, cutoffs, ratios, balances, simulationBalances,
                 simulationTaken>>

\* The mutant of RemoveFrom: the loop starts one queue too far to the right.
RemoveFrom_OffByOne(qs, cl, first) ==
  [i \in DOMAIN qs |-> IF i > first THEN AWRemove(qs[i], cl) ELSE qs[i]]

\* The loop that removes a clause from the queues first .. N-1.
RemoveFrom(qs, cl, first) ==
  [i \in DOMAIN qs |-> IF i >= first THEN AWRemove(qs[i], cl) ELSE qs[i]]

\* The handlers of the removed event of the Passive container: the
\* saturation loop takes the store of the clause from PASSIVE to NONE.
OnPassiveRemoved(st, cl) ==
  IF st[cl] = "PASSIVE" THEN [st EXCEPT ![cl] = "NONE"] ELSE st

\* PredicateSplitPassiveClauseContainer::remove
remove(cl) ==
  /\ pc = "constructed"
  /\ store' = IF isOutermost THEN OnPassiveRemoved(store, cl) ELSE store
  /\ UNCHANGED <<evt, indices, inference, unprocessed, active, activeSize, gis, limits, lrs,
                 discardedNonRedundantClauses>>
  /\ cl \in Held(queues)
  /\ LET qs == RemoveFrom(queues, cl, bestQueueHeuristics(cl))
     IN  /\ queues' = qs
         /\ lastOp' = Op("remove", cl, NoIndex, NoIndex,
                         IF isOutermost THEN <<Fired("removed", cl, qs)>> ELSE <<>>)
  /\ UNCHANGED <<pc, optRatios, optCutoffs, splitQueueFadeIn, ageWeightRatio,
                 isOutermost, cutoffs, ratios, balances, simulationBalances,
                 simulationTaken>>

\* std::min_element over bal[i ..], best being the least index found so far.
RECURSIVE MinElementFrom(_, _, _)
MinElementFrom(bal, i, best) ==
  IF i \notin DOMAIN bal THEN best
  ELSE MinElementFrom(bal, i + 1, IF bal[i] < bal[best] THEN i ELSE best)

\* The mutant of MinElement: the last of several least balances is taken.
MinElement_Last(bal) ==
  CHOOSE i \in DOMAIN bal :
    /\ \A j \in DOMAIN bal : bal[i] <= bal[j]
    /\ \A j \in DOMAIN bal : j > i => bal[j] > bal[i]

\* The queue the weighted round robin selects.
MinElement(bal) == MinElementFrom(bal, 1, 0)

\* The scan to the right: the first index from i on that is the number of
\* queues or names a queue with a clause (empty[j]: queue j has none).
RECURSIVE ScanRight(_, _, _)
ScanRight(empty, n, i) ==
  IF i < n /\ empty[i] THEN ScanRight(empty, n, i + 1) ELSE i

\* The fallback scan to the left from index i; below 0 the code would read
\* _queues[-1].
RECURSIVE ScanLeft(_, _)
ScanLeft(empty, i) ==
  IF i >= 0 /\ empty[i] THEN ScanLeft(empty, i - 1) ELSE i

\* The mutant of CurrIndex: the fallback takes the leftmost queue with a clause.
CurrIndex_Leftmost(empty, n, queueIndex) ==
  LET right == ScanRight(empty, n, queueIndex)
  IN  IF right = n
        THEN (IF \E j \in 0 .. queueIndex - 1 : ~empty[j]
                THEN CHOOSE j \in 0 .. queueIndex - 1 :
                       ~empty[j] /\ \A k \in 0 .. j - 1 : empty[k]
                ELSE NoIndex)
        ELSE right

\* The mutant of CurrIndex: no fallback to the left.
CurrIndex_RightOnly(empty, n, queueIndex) == ScanRight(empty, n, queueIndex)

\* currIndex: the queue the clause is taken from.
CurrIndex(empty, n, queueIndex) ==
  LET right == ScanRight(empty, n, queueIndex)
  IN  IF right = n THEN ScanLeft(empty, queueIndex - 1) ELSE right

\* popSelected on the balances bal and the queues qs: the new balances and
\* queues, the clause returned, the balance-selected queue, the queue the
\* clause is taken from and the events fired.  A currIndex outside the
\* queues is a read of _queues outside its bounds.
PopSelectedStep(bal, qs) ==
  LET queueIndex == MinElement(bal)
      Empty == [i \in DOMAIN qs |-> AWIsEmpty(qs[i])]
      currIndex == CurrIndex(Empty, Cardinality(DOMAIN qs), queueIndex)
      newBal == [bal EXCEPT ![queueIndex] = @ + ratios[queueIndex]]
  IN  IF currIndex \notin DOMAIN qs
        THEN [defined |-> FALSE, balances |-> newBal, queues |-> qs, cl |-> NoClause,
              queueIndex |-> queueIndex, currIndex |-> currIndex, fired |-> <<>>]
        ELSE LET cl == AWSelected(qs[currIndex])
                 popped == [qs EXCEPT ![currIndex] = AWPopSelected(@)]
                 removed == RemoveFrom(popped, cl, 0)
             IN  [defined |-> TRUE, balances |-> newBal, queues |-> removed, cl |-> cl,
                  queueIndex |-> queueIndex, currIndex |-> currIndex,
                  fired |-> <<Fired("selected", cl, removed)>>]

\* PredicateSplitPassiveClauseContainer::popSelected
popSelected ==
  /\ pc = "constructed"
  /\ UNCHANGED saturationVars
  /\ ~isEmpty(queues)
  /\ Near(balances)
  /\ LET r == PopSelectedStep(balances, queues)
     IN  /\ pc' = IF r.defined THEN pc ELSE "undefined"
         /\ balances' = r.balances
         /\ queues' = r.queues
         /\ lastOp' = Op("popSelected", r.cl, r.queueIndex, r.currIndex, r.fired)
  /\ UNCHANGED <<optRatios, optCutoffs, splitQueueFadeIn, ageWeightRatio,
                 isOutermost, cutoffs, ratios, simulationBalances, simulationTaken>>

\* The mutant of SimulationInitBalances: the rehearsal starts from balances 0.
SimulationInitBalances_Zero(bal) == [i \in DOMAIN bal |-> 0]

\* The copy of the balances simulationInit makes.
SimulationInitBalances(bal) == [i \in DOMAIN bal |-> bal[i]]

\* PredicateSplitPassiveClauseContainer::simulationInit
simulationInit ==
  /\ pc = "constructed"
  /\ UNCHANGED saturationVars
  /\ simulationBalances' = SimulationInitBalances(balances)
  /\ simulationTaken' = {}
  /\ queues' = [i \in DOMAIN queues |-> AWSimulationInit(queues[i])]
  /\ lastOp' = Op("simulationInit", NoClause, NoIndex, NoIndex, <<>>)
  /\ UNCHANGED <<pc, optRatios, optCutoffs, splitQueueFadeIn, ageWeightRatio,
                 isOutermost, cutoffs, ratios, balances>>

\* The value of PredicateSplitPassiveClauseContainer::simulationHasNext
simulationHasNextValue(qs, taken) ==
  \E i \in DOMAIN qs : AWSimulationHasNext(qs[i], taken)

\* PredicateSplitPassiveClauseContainer::simulationHasNext
simulationHasNext ==
  /\ pc = "constructed"
  /\ UNCHANGED saturationVars
  /\ lastOp' = [Op("simulationHasNext", NoClause, NoIndex, NoIndex, <<>>)
                  EXCEPT !.hasNext = simulationHasNextValue(queues, simulationTaken)]
  /\ UNCHANGED <<pc, optRatios, optCutoffs, splitQueueFadeIn, ageWeightRatio,
                 isOutermost, cutoffs, ratios, balances, simulationBalances,
                 simulationTaken, queues>>

\* The mutant of SimulationBalances: the weight is added to the real
\* balances.
SimulationBalances_Real(real, sim, queueIndex) ==
  [real |-> [real EXCEPT ![queueIndex] = @ + ratios[queueIndex]], sim |-> sim]

\* The real and the simulation balances after the simulated choice of
\* queueIndex.
SimulationBalances(real, sim, queueIndex) ==
  [real |-> real, sim |-> [sim EXCEPT ![queueIndex] = @ + ratios[queueIndex]]]

\* simulationPopSelected on the balances real, the simulation balances sim,
\* the queues qs and the clauses taken so far.
SimulationPopSelectedStep(real, sim, qs, taken) ==
  LET queueIndex == MinElement(sim)
      Empty == [i \in DOMAIN qs |-> ~AWSimulationHasNext(qs[i], taken)]
      currIndex == CurrIndex(Empty, Cardinality(DOMAIN qs), queueIndex)
      after == SimulationBalances(real, sim, queueIndex)
  IN  IF currIndex \notin DOMAIN qs
        THEN [defined |-> FALSE, balances |-> after.real,
              simulationBalances |-> after.sim, queues |-> qs, taken |-> taken,
              cl |-> NoClause, queueIndex |-> queueIndex, currIndex |-> currIndex]
        ELSE LET cl == AWSimulationSelected(qs[currIndex], taken)
             IN  [defined |-> TRUE, balances |-> after.real,
                  simulationBalances |-> after.sim,
                  queues |-> [qs EXCEPT ![currIndex] = AWSimulationPopSelected(@)],
                  taken |-> taken \cup {cl},
                  cl |-> cl, queueIndex |-> queueIndex, currIndex |-> currIndex]

\* PredicateSplitPassiveClauseContainer::simulationPopSelected
simulationPopSelected ==
  /\ pc = "constructed"
  /\ UNCHANGED saturationVars
  /\ DOMAIN simulationBalances = DOMAIN queues
  /\ simulationHasNextValue(queues, simulationTaken)
  /\ Near(simulationBalances)
  /\ LET r == SimulationPopSelectedStep(balances, simulationBalances, queues,
                                        simulationTaken)
     IN  /\ pc' = IF r.defined THEN pc ELSE "undefined"
         /\ balances' = r.balances
         /\ simulationBalances' = r.simulationBalances
         /\ simulationTaken' = r.taken
         /\ queues' = r.queues
         /\ lastOp' = Op("simulationPopSelected", r.cl, r.queueIndex, r.currIndex, <<>>)
  /\ UNCHANGED <<optRatios, optCutoffs, splitQueueFadeIn, ageWeightRatio,
                 isOutermost, cutoffs, ratios>>

\* PredicateSplitPassiveClauseContainer::setLimitsToMax
setLimitsToMax ==
  /\ pc = "constructed"
  /\ UNCHANGED saturationVars
  /\ queues' = [i \in DOMAIN queues |-> AWSetLimitsToMax(queues[i])]
  /\ lastOp' = Op("setLimitsToMax", NoClause, NoIndex, NoIndex, <<>>)
  /\ UNCHANGED <<pc, optRatios, optCutoffs, splitQueueFadeIn, ageWeightRatio,
                 isOutermost, cutoffs, ratios, balances, simulationBalances,
                 simulationTaken>>

\* PredicateSplitPassiveClauseContainer::setLimitsFromSimulation
setLimitsFromSimulation ==
  /\ pc = "constructed"
  /\ UNCHANGED saturationVars
  /\ DOMAIN simulationBalances = DOMAIN queues
  /\ \E lims \in [DOMAIN queues -> LimitChoices] :
       queues' = [i \in DOMAIN queues |-> AWSetLimits(queues[i], lims[i])]
  /\ lastOp' = Op("setLimitsFromSimulation", NoClause, NoIndex, NoIndex, <<>>)
  /\ UNCHANGED <<pc, optRatios, optCutoffs, splitQueueFadeIn, ageWeightRatio,
                 isOutermost, cutoffs, ratios, balances, simulationBalances,
                 simulationTaken>>

\* PredicateSplitPassiveClauseContainer::onLimitsUpdated
onLimitsUpdated ==
  /\ pc = "constructed"
  /\ UNCHANGED saturationVars
  /\ queues' = [i \in DOMAIN queues |-> AWOnLimitsUpdated(queues[i])]
  /\ lastOp' = Op("onLimitsUpdated", NoClause, NoIndex, NoIndex, <<>>)
  /\ UNCHANGED <<pc, optRatios, optCutoffs, splitQueueFadeIn, ageWeightRatio,
                 isOutermost, cutoffs, ratios, balances, simulationBalances,
                 simulationTaken>>

\* The loop of fulfilsAgeLimit over the queues i .. N-1.
RECURSIVE FulfilsAgeLimitFrom(_, _, _)
FulfilsAgeLimitFrom(qs, cl, i) ==
  IF i \notin DOMAIN qs THEN FALSE
  ELSE IF AWFulfilsAgeLimit(qs[i], cl) THEN TRUE
  ELSE FulfilsAgeLimitFrom(qs, cl, i + 1)

\* The loop of fulfilsWeightLimit over the queues i .. N-1.
RECURSIVE FulfilsWeightLimitFrom(_, _, _)
FulfilsWeightLimitFrom(qs, cl, i) ==
  IF i \notin DOMAIN qs THEN FALSE
  ELSE IF AWFulfilsWeightLimit(qs[i], cl) THEN TRUE
  ELSE FulfilsWeightLimitFrom(qs, cl, i + 1)

\* PredicateSplitPassiveClauseContainer::fulfilsAgeLimit(Clause*)
fulfilsAgeLimit(cl) == FulfilsAgeLimitFrom(queues, cl, bestQueueHeuristics(cl))

\* The mutant of fulfilsWeightLimit: the loop starts at the first queue.
fulfilsWeightLimit_AllQueues(cl) == FulfilsWeightLimitFrom(queues, cl, 0)

\* PredicateSplitPassiveClauseContainer::fulfilsWeightLimit(Clause*)
fulfilsWeightLimit(cl) == FulfilsWeightLimitFrom(queues, cl, bestQueueHeuristics(cl))

\* A call of fulfilsAgeLimit and of fulfilsWeightLimit on the clause cl.
fulfilsLimits(cl) ==
  /\ pc = "constructed"
  /\ UNCHANGED saturationVars
  /\ lastOp' = [op |-> "fulfilsLimits", cl |-> cl,
                fulfilsAgeLimit |-> fulfilsAgeLimit(cl),
                fulfilsWeightLimit |-> fulfilsWeightLimit(cl)]
  /\ UNCHANGED <<pc, optRatios, optCutoffs, splitQueueFadeIn, ageWeightRatio,
                 isOutermost, cutoffs, ratios, balances, simulationBalances,
                 simulationTaken, queues>>

\* ------------------------------------------------------------ the event
\* The handlers that subscribe to the event.
Handlers == 1 .. MaxHandlers

\* The null pointer that ends the list of handlers.
NoHandler == 0

\* An event without handlers, on which fire is not running.
EventIdle ==
  [handlers |-> <<>>, live |-> {}, frames |-> <<>>, crashed |-> FALSE,
   last |-> [op |-> "none"]]

\* The mutant of EventIsEmpty: the event counts as empty while at most one
\* handler is subscribed.
EventIsEmpty_AtMostOne(handlers) == Len(handlers) <= 1

\* BaseEvent::isEmpty
EventIsEmpty(handlers) == handlers = <<>>

\* Every variable but the event.
containerVars ==
  <<pc, optRatios, optCutoffs, splitQueueFadeIn, ageWeightRatio, isOutermost,
    cutoffs, ratios, balances, simulationBalances, simulationTaken, queues,
    lastOp, indices, inference, store, unprocessed, active, activeSize, gis,
    limits, lrs, discardedNonRedundantClauses>>

\* The mutant of FireFirst: the walk starts at the second node of the list.
FireFirst_Second(handlers) ==
  IF Len(handlers) >= 2 THEN handlers[2] ELSE NoHandler

\* fire: HandlerList* hit=_handlers
FireFirst(handlers) ==
  IF handlers = <<>> THEN NoHandler ELSE handlers[1]

\* fire: hit->tail(), hit being a node of the list handlers.
TailOf(handlers, hit) ==
  LET k == CHOOSE k \in DOMAIN handlers : handlers[k] = hit
  IN  IF k = Len(handlers) THEN NoHandler ELSE handlers[k + 1]

\* BaseEvent::subscribe: the list keeps the handlers in the order of their
\* subscriptions.
subscribe(handlers, h) == Append(handlers, h)

\* BaseEvent::unsubscribe: the node of the handler leaves the list.
unsubscribe(handlers, h) == SelectSeq(handlers, LAMBDA x : x # h)

\* A call of fire that has read _handlers and has invoked no handler yet.
\* hit: the node the walk is at; running: the handler of hit is being
\* invoked; acted: a handler this call has invoked has made a call on the
\* event, which one handler does for each call of fire; lost: the
\* node hit has been removed from the list, staleTail being its tail when
\* it was; readRemoved: the walk has read a removed node.  atStart, invoked,
\* subscribed and unsubscribed record the call.
NewFrame(handlers) ==
  [hit |-> FireFirst(handlers), running |-> FALSE, acted |-> FALSE,
   lost |-> FALSE, staleTail |-> NoHandler, readRemoved |-> FALSE,
   atStart |-> handlers, invoked |-> <<>>, subscribed |-> {}, unsubscribed |-> {}]

\* No call of fire is under way.
Quiet == evt.frames = <<>>

\* The innermost call of fire.
TopFrame == evt.frames[Len(evt.frames)]

\* A handler is being invoked and no handler of this call of fire has made
\* a call on the event yet.
InHandler ==
  /\ evt.frames # <<>>
  /\ TopFrame.running
  /\ ~TopFrame.acted

\* The calls of fire under way once the handler being invoked, if there is
\* one, has made a call on the event.
ActedFrames ==
  [k \in DOMAIN evt.frames |->
     IF k = Len(evt.frames) THEN [evt.frames[k] EXCEPT !.acted = TRUE]
     ELSE evt.frames[k]]

\* SingleParamEvent::subscribe, from outside or from a handler being invoked.
EventSubscribe(h) ==
  /\ ~evt.crashed
  /\ Quiet \/ InHandler
  /\ h \notin Range(evt.handlers)
  /\ evt' = [evt EXCEPT
               !.handlers = subscribe(@, h),
               !.live = @ \cup {h},
               !.frames = [k \in DOMAIN @ |->
                             [ActedFrames[k] EXCEPT !.subscribed = @ \cup {h}]],
               !.last = [op |-> "subscribe", h |-> h, before |-> evt.handlers]]
  /\ UNCHANGED containerVars

\* SubscriptionObject::unsubscribe, from outside or from the handler itself
\* while it is being invoked.
EventUnsubscribe(h) ==
  /\ ~evt.crashed
  /\ Quiet \/ (InHandler /\ h = TopFrame.hit /\ ~TopFrame.lost)
  /\ h \in Range(evt.handlers)
  /\ evt' = [evt EXCEPT
               !.handlers = unsubscribe(@, h),
               !.live = @ \ {h},
               !.frames = [k \in DOMAIN @ |->
                             IF ActedFrames[k].hit = h /\ ~ActedFrames[k].lost
                               THEN [ActedFrames[k] EXCEPT
                                       !.lost = TRUE,
                                       !.staleTail = TailOf(evt.handlers, h),
                                       !.unsubscribed = @ \cup {h}]
                               ELSE [ActedFrames[k] EXCEPT
                                       !.unsubscribed = @ \cup {h}]],
               !.last = [op |-> "unsubscribe", h |-> h, before |-> evt.handlers]]
  /\ UNCHANGED containerVars

\* SingleParamEvent::fire is called, from outside or from a handler being
\* invoked.
EventFire ==
  /\ ~evt.crashed
  /\ Quiet \/ InHandler
  /\ Len(evt.frames) < MaxFireDepth
  /\ evt' = [evt EXCEPT
               !.frames = Append(ActedFrames, NewFrame(evt.handlers)),
               !.last = [op |-> "fire"]]
  /\ UNCHANGED containerVars

\* fire: the handler of the node hit is invoked.
EventInvoke ==
  /\ ~evt.crashed
  /\ evt.frames # <<>>
  /\ ~TopFrame.running
  /\ TopFrame.hit # NoHandler
  /\ Len(TopFrame.invoked) <= MaxHandlers
  /\ evt' = [evt EXCEPT
               !.frames[Len(evt.frames)] =
                  [@ EXCEPT !.running = TRUE,
                            !.invoked = Append(@, TopFrame.hit)],
               !.last = [op |-> "invoke", h |-> TopFrame.hit]]
  /\ UNCHANGED containerVars

\* fire: the handler has returned and the walk reads hit->tail().  When the
\* node hit has been removed the read is of a removed node: it yields the
\* tail the node had, or null, or the run ends there.
EventHandlerReturns ==
  /\ ~evt.crashed
  /\ evt.frames # <<>>
  /\ TopFrame.running
  /\ \E outcome \in IF TopFrame.lost THEN {"stale", "null", "crash"} ELSE {"tail"} :
       evt' = [evt EXCEPT
                 !.crashed = outcome = "crash",
                 !.frames[Len(evt.frames)] =
                    [@ EXCEPT
                       !.running = FALSE,
                       !.lost = FALSE,
                       !.readRemoved = @ \/ TopFrame.lost,
                       !.hit = IF outcome = "tail"
                                 THEN TailOf(evt.handlers, TopFrame.hit)
                               ELSE IF outcome = "stale"
                                       /\ TopFrame.staleTail \in Range(evt.handlers)
                                 THEN TopFrame.staleTail
                               ELSE NoHandler],
                 !.last = [op |-> "return", h |-> TopFrame.hit]]
  /\ UNCHANGED containerVars

\* fire: the walk has reached the end of the list and fire returns.
EventFireReturns ==
  /\ ~evt.crashed
  /\ evt.frames # <<>>
  /\ ~TopFrame.running
  /\ TopFrame.hit = NoHandler
  /\ evt' = [evt EXCEPT
               !.frames = SubSeq(@, 1, Len(@) - 1),
               !.last = [op |-> "fireEnd", depth |-> Len(evt.frames),
                         atStart |-> TopFrame.atStart,
                         invoked |-> TopFrame.invoked,
                         subscribed |-> TopFrame.subscribed,
                         unsubscribed |-> TopFrame.unsubscribed,
                         readRemoved |-> TopFrame.readRemoved]]
  /\ UNCHANGED containerVars

\* The four term indices, each without a triple.
IndexNames ==
  {"SuperpositionSubtermIndex", "SuperpositionLHSIndex",
   "DemodulationSubtermIndex", "DemodulationLHSIndex"}

NoTriples == [name \in IndexNames |-> EmptyBag]

\* ------------------------------------------------------- the term indices
\* The terms and the literals of the model, each under its name: a term
\* has a symbol and arguments, x being a variable; a literal has a predicate
\* and arguments, and an equality carries the result of the comparison of
\* its sides.  Terms and literals are shared: the name is the identity.
TermBank ==
  LET T(args) == [args |-> args, positive |-> TRUE, order |-> "NONE"]
      Eq(args, order) == [args |-> args, positive |-> TRUE, order |-> order]
  IN  ("a" :> T(<<>>)) @@ ("b" :> T(<<>>)) @@ ("x" :> T(<<>>))
      @@ ("f(a)" :> T(<<"a">>)) @@ ("f(x)" :> T(<<"x">>))
      @@ ("g(a,a)" :> T(<<"a", "a">>))
      @@ ("p(f(x))" :> T(<<"f(x)">>))
      @@ ("f(a)=a" :> Eq(<<"f(a)", "a">>, "GREATER"))
      @@ ("a=b" :> Eq(<<"a", "b">>, "INCOMPARABLE"))
      @@ ("b=g(a,a)" :> Eq(<<"b", "g(a,a)">>, "LESS"))
      @@ ("f(a)=b" :> Eq(<<"f(a)", "b">>, "GREATER"))

\* Clause::operator[]: the literals of the clause, the selected ones first.
\* Odd clauses are unit equalities, oriented or not; the others have as many
\* literals as LitWeights gives them.
Literals(cl) ==
  IF cl % 2 = 1 THEN (IF cl % 4 = 1 THEN <<"f(a)=a">> ELSE <<"a=b">>)
  ELSE SubSeq(<<"b=g(a,a)", "p(f(x))", "f(a)=b">>, 1, Len(LitWeights(cl)))

\* Clause::length()
length(cl) == Len(Literals(cl))

\* NonVariableIterator: the occurrences of non-variable subterms in the
\* terms ts[i], ts[i + 1], ..., each term before its arguments.
RECURSIVE NonVariableIterator(_, _)
NonVariableIterator(ts, i) ==
  IF i > Len(ts) THEN <<>>
  ELSE (IF ts[i] = "x" THEN <<>>
        ELSE <<ts[i]>> \o NonVariableIterator(TermBank[ts[i]].args, 1))
       \o NonVariableIterator(ts, i + 1)

\* The sides of an equality that are not smaller than the other side.
LargerSides(lit) ==
  CASE TermBank[lit].order = "GREATER" -> <<TermBank[lit].args[1]>>
    [] TermBank[lit].order = "LESS" -> <<TermBank[lit].args[2]>>
    [] OTHER -> TermBank[lit].args

\* EqHelper::getRewritableSubtermIterator: in an equality the non-variable
\* subterms of the sides that are not smaller, in another literal all of
\* its non-variable subterms.
getRewritableSubtermIterator(lit) ==
  IF TermBank[lit].order # "NONE" THEN NonVariableIterator(LargerSides(lit), 1)
  ELSE NonVariableIterator(TermBank[lit].args, 1)

\* EqHelper::getSuperpositionLHSIterator: the oriented side of a positive
\* equality, both sides of an unordered one.
getSuperpositionLHSIterator(lit) ==
  IF TermBank[lit].order # "NONE" /\ TermBank[lit].positive
    THEN LargerSides(lit) ELSE <<>>

\* EqHelper::getDemodulationLHSIterator: the sides of a positive equality a
\* demodulation may rewrite from, which are not variables.
getDemodulationLHSIterator(lit) ==
  IF TermBank[lit].order # "NONE" /\ TermBank[lit].positive
    THEN SelectSeq(LargerSides(lit), LAMBDA t : t # "x")
    ELSE <<>>

\* The loop of handleClause over the literals i .. n-1 of c, its[k] being
\* the terms the iterator yields for the literal k-1: the triples
\* (t, lit, c) the loop hands to the indexing structure, in this order.
RECURSIVE HandledTriples(_, _, _, _)
HandledTriples(c, its, i, n) ==
  IF i >= n THEN <<>>
  ELSE [k \in DOMAIN its[i + 1] |->
          [term |-> its[i + 1][k], literal |-> Literals(c)[i + 1], clause |-> c]]
       \o HandledTriples(c, its, i + 1, n)

\* The mutant of SuperpositionSubtermIndex: the loop runs over all the
\* literals of the clause.
SuperpositionSubtermIndex_AllLiterals(c) ==
  LET rsti == [k \in 1 .. length(c) |-> getRewritableSubtermIterator(Literals(c)[k])]
  IN  HandledTriples(c, rsti, 0, length(c))

\* SuperpositionSubtermIndex::handleClause: the triples it hands to _is.
SuperpositionSubtermIndex(c) ==
  LET rsti == [k \in 1 .. length(c) |-> getRewritableSubtermIterator(Literals(c)[k])]
  IN  HandledTriples(c, rsti, 0, selected(c))

\* SuperpositionLHSIndex::handleClause: the triples it hands to _is.
SuperpositionLHSIndex(c) ==
  LET lhsi == [k \in 1 .. length(c) |-> getSuperpositionLHSIterator(Literals(c)[k])]
  IN  HandledTriples(c, lhsi, 0, selected(c))

\* DemodulationSubtermIndex::handleClause: the triples it hands to _is.
DemodulationSubtermIndex(c) ==
  LET nvi == [k \in 1 .. length(c) |-> NonVariableIterator(TermBank[Literals(c)[k]].args, 1)]
  IN  HandledTriples(c, nvi, 0, length(c))

\* The mutant of DemodulationLHSIndex: the length of the clause is not looked at.
DemodulationLHSIndex_AnyLength(c) ==
  LET lhsi == [k \in 1 .. length(c) |-> getDemodulationLHSIterator(Literals(c)[k])]
  IN  HandledTriples(c, lhsi, 0, 1)

\* DemodulationLHSIndex::handleClause: the triples it hands to _is, none
\* for a clause that is not a unit clause.
DemodulationLHSIndex(c) ==
  LET lhsi == [k \in 1 .. length(c) |-> getDemodulationLHSIterator(Literals(c)[k])]
  IN  IF length(c) # 1 THEN <<>> ELSE HandledTriples(c, lhsi, 0, 1)

\* What handleClause of each index hands to its indexing structure for each
\* clause: the triples, each with the number of times it is handed over.
\* The clauses do not change, so neither does this table.
Handled ==
  [name \in IndexNames |-> [c \in Clauses |->
     LET triples == CASE name = "SuperpositionSubtermIndex" -> SuperpositionSubtermIndex(c)
                      [] name = "SuperpositionLHSIndex" -> SuperpositionLHSIndex(c)
                      [] name = "DemodulationSubtermIndex" -> DemodulationSubtermIndex(c)
                      [] name = "DemodulationLHSIndex" -> DemodulationLHSIndex(c)
     IN  [t \in Range(triples) |-> Cardinality({k \in DOMAIN triples : triples[k] = t})]]]

\* _is->insert on each of the triples when adding, _is->remove otherwise;
\* is: the triples the indexing structure holds, each with the number of
\* times it was inserted.
InsertOrRemove(is, handled, adding) ==
  IF adding THEN is (+) handled ELSE is (-) handled

\* The handlers of the added and removed events of the Active container:
\* each index runs its handleClause.
handleClause(ix, c, adding) ==
  [name \in IndexNames |-> InsertOrRemove(ix[name], Handled[name][c], adding)]

\* ------------------------------------- the Unprocessed and Active containers
\* No run of ActiveClauseContainer::onLimitsUpdated is under way.
LrsIdle ==
  [pc |-> "idle", rit |-> {}, checked |-> {},
   toRemove |-> <<>>, removed |-> <<>>, activeAtStart |-> <<>>,
   discardedAtStart |-> 0]

\* An event fired by the Unprocessed or the Active container.
Event(event, cl) == [event |-> event, clause |-> cl]

\* UnprocessedClauseContainer::add
UnprocessedAdd(c) ==
  /\ lrs.pc = "idle"
  /\ c \notin Range(unprocessed)
  /\ unprocessed' = Append(unprocessed, c)
  /\ lastOp' = Op("UnprocessedAdd", c, NoIndex, NoIndex, <<Event("added", c)>>)
  /\ UNCHANGED <<pc, optRatios, optCutoffs, splitQueueFadeIn, ageWeightRatio,
                 isOutermost, cutoffs, ratios, balances, simulationBalances,
                 simulationTaken, queues>>
  /\ UNCHANGED <<evt, indices, inference, store, active, activeSize, gis, limits, lrs,
                 discardedNonRedundantClauses>>

\* The mutant of pop_back: the element at the front is taken.
pop_back_Front(data) ==
  [res |-> data[1], data |-> SubSeq(data, 2, Len(data))]

\* The mutant of pop_back: the last element is read and not taken out.
pop_back_Keep(data) ==
  [res |-> data[Len(data)], data |-> data]

\* _data.pop_back(): the element taken and the elements left.
pop_back(data) ==
  [res |-> data[Len(data)], data |-> SubSeq(data, 1, Len(data) - 1)]

\* _data.pop_back() fails on a deque that holds nothing.
pop_back_Fails(data) == data = <<>>

\* The mutant of UnprocessedPopStep: selected is fired before the deque is
\* asked for its last element.
UnprocessedPopStep_FireFirst(data) ==
  IF pop_back_Fails(data)
    THEN [error |-> "Empty", res |-> NoClause, data |-> data,
          fired |-> <<Event("selected", NoClause)>>]
    ELSE [error |-> "none", res |-> pop_back(data).res, data |-> pop_back(data).data,
          fired |-> <<Event("selected", pop_back(data).res)>>]

\* The body of UnprocessedClauseContainer::pop on the deque data: the
\* failure, the clause returned, the deque left and the events fired.  The
\* call of fire is reached only when pop_back has returned.
UnprocessedPopStep(data) ==
  IF pop_back_Fails(data)
    THEN [error |-> "Empty", res |-> NoClause, data |-> data, fired |-> <<>>]
    ELSE [error |-> "none", res |-> pop_back(data).res, data |-> pop_back(data).data,
          fired |-> <<Event("selected", pop_back(data).res)>>]

\* UnprocessedClauseContainer::pop
UnprocessedPop ==
  /\ lrs.pc = "idle"
  /\ unprocessed # <<>>
  /\ LET popped == UnprocessedPopStep(unprocessed)
     IN  /\ unprocessed' = popped.data
         /\ lastOp' = Op("UnprocessedPop", popped.res, NoIndex, NoIndex,
                         popped.fired)
  /\ UNCHANGED <<pc, optRatios, optCutoffs, splitQueueFadeIn, ageWeightRatio,
                 isOutermost, cutoffs, ratios, balances, simulationBalances,
                 simulationTaken, queues>>
  /\ UNCHANGED <<evt, indices, inference, store, active, activeSize, gis, limits, lrs,
                 discardedNonRedundantClauses>>

\* UnprocessedClauseContainer::pop on a container that holds no clause.
UnprocessedPopEmpty ==
  /\ lrs.pc = "idle"
  /\ unprocessed = <<>>
  /\ lastOp.op # "UnprocessedPopEmpty"
  /\ LET popped == UnprocessedPopStep(unprocessed)
     IN  /\ unprocessed' = popped.data
         /\ lastOp' = [op |-> "UnprocessedPopEmpty", error |-> popped.error,
                       cl |-> popped.res, fired |-> popped.fired]
  /\ UNCHANGED <<pc, optRatios, optCutoffs, splitQueueFadeIn, ageWeightRatio,
                 isOutermost, cutoffs, ratios, balances, simulationBalances,
                 simulationTaken, queues>>
  /\ UNCHANGED <<evt, indices, inference, store, active, activeSize, gis, limits, lrs,
                 discardedNonRedundantClauses>>

\* Clause::setStore, called by the saturation loop on a clause that is in no
\* container.
setStore(cl, st) ==
  /\ lrs.pc = "idle"
  /\ cl \notin Range(unprocessed) \cup Range(active) \cup Held(queues)
  /\ store[cl] # st
  /\ store' = [store EXCEPT ![cl] = st]
  /\ lastOp' = Op("setStore", cl, NoIndex, NoIndex, <<>>)
  /\ UNCHANGED <<pc, optRatios, optCutoffs, splitQueueFadeIn, ageWeightRatio,
                 isOutermost, cutoffs, ratios, balances, simulationBalances,
                 simulationTaken, queues>>
  /\ UNCHANGED <<evt, indices, inference, unprocessed, active, activeSize, gis, limits, lrs,
                 discardedNonRedundantClauses>>

\* The entries of the generating literal index for the clause: one for each
\* selected literal.
IndexEntries(cl) == {[clause |-> cl, literal |-> i] : i \in 0 .. selected(cl) - 1}

\* The handlers of the added event of the Active container: the index takes
\* the selected literals of the clause.
OnActiveAdded(g, cl) ==
  IF g.present THEN [g EXCEPT !.entries = @ \cup IndexEntries(cl)] ELSE g

\* ActiveClauseContainer::add
ActiveAdd(c) ==
  /\ lrs.pc = "idle"
  /\ store[c] = "ACTIVE"
  /\ c \notin Range(active)
  /\ activeSize' = activeSize + 1
  /\ active' = Append(active, c)
  /\ gis' = OnActiveAdded(gis, c)
  /\ indices' = handleClause(indices, c, TRUE)
  /\ lastOp' = Op("ActiveAdd", c, NoIndex, NoIndex, <<Event("added", c)>>)
  /\ UNCHANGED <<pc, optRatios, optCutoffs, splitQueueFadeIn, ageWeightRatio,
                 isOutermost, cutoffs, ratios, balances, simulationBalances,
                 simulationTaken, queues>>
  /\ UNCHANGED <<evt, inference, store, unprocessed, limits, lrs,
                 discardedNonRedundantClauses>>

\* The mutant of ActiveRemoveStep: _size is not decremented.
ActiveRemoveStep_KeepSize(a, c) ==
  [a EXCEPT !.active = Without(@, c),
            !.gis = [@ EXCEPT !.entries = {e \in @ : e.clause # c}],
            !.indices = handleClause(@, c, FALSE),
            !.store = [@ EXCEPT ![c] = "NONE"]]

\* ActiveClauseContainer::remove on the clause c, with the handlers of its
\* removed event: the index drops the entries of the clause, the saturation
\* loop takes the store of the clause to NONE.  a: the fields the call and
\* the handlers touch.
ActiveRemoveStep(a, c) ==
  [a EXCEPT !.activeSize = @ - 1,
            !.active = Without(@, c),
            !.gis = [@ EXCEPT !.entries = {e \in @ : e.clause # c}],
            !.indices = handleClause(@, c, FALSE),
            !.store = [@ EXCEPT ![c] = "NONE"]]

\* The fields of the state ActiveRemoveStep works on.
ActiveState ==
  [activeSize |-> activeSize, active |-> active, gis |-> gis, indices |-> indices,
   store |-> store]

\* ActiveClauseContainer::remove
ActiveRemove(c) ==
  /\ lrs.pc = "idle"
  /\ store[c] = "ACTIVE"
  /\ c \in Range(active)
  /\ LET a == ActiveRemoveStep(ActiveState, c)
     IN  /\ activeSize' = a.activeSize
         /\ active' = a.active
         /\ gis' = a.gis
         /\ indices' = a.indices
         /\ store' = a.store
  /\ lastOp' = Op("ActiveRemove", c, NoIndex, NoIndex, <<Event("removed", c)>>)
  /\ UNCHANGED <<pc, optRatios, optCutoffs, splitQueueFadeIn, ageWeightRatio,
                 isOutermost, cutoffs, ratios, balances, simulationBalances,
                 simulationTaken, queues>>
  /\ UNCHANGED <<evt, inference, unprocessed, limits, lrs, discardedNonRedundantClauses>>

\* PredicateSplitPassiveClauseContainer::add where assertions are compiled
\* in: the store of the clause is PASSIVE at the call.
PassiveAdd(cl) ==
  /\ store[cl] = "PASSIVE"
  /\ add(cl)

\* PredicateSplitPassiveClauseContainer::remove where assertions are compiled
\* in: the store of the clause is PASSIVE at the call.
PassiveRemove(cl) ==
  /\ isOutermost => store[cl] = "PASSIVE"
  /\ remove(cl)

\* Limits::ageLimited, Limits::weightLimited
ageLimited == limits.ageLimit # NoLimit
weightLimited == limits.weightLimit # NoLimit

\* Limits::setAgeLimit / setWeightLimit, called by the LRS controller.
setLimits(l) ==
  /\ lrs.pc = "idle"
  /\ l # limits
  /\ limits' = l
  /\ lastOp' = Op("setLimits", NoClause, NoIndex, NoIndex, <<>>)
  /\ UNCHANGED <<pc, optRatios, optCutoffs, splitQueueFadeIn, ageWeightRatio,
                 isOutermost, cutoffs, ratios, balances, simulationBalances,
                 simulationTaken, queues>>
  /\ UNCHANGED <<evt, indices, inference, store, unprocessed, active, activeSize, gis, lrs,
                 discardedNonRedundantClauses>>

\* The loop over the selected literals from literal i on, entered with the
\* greatest weight maxSelWeight found so far.
RECURSIVE MaxSelWeightFrom(_, _, _)
MaxSelWeightFrom(cl, i, maxSelWeight) ==
  IF i >= selected(cl) THEN maxSelWeight
  ELSE MaxSelWeightFrom(cl, i + 1,
         IF LitWeights(cl)[i + 1] > maxSelWeight
           THEN LitWeights(cl)[i + 1] ELSE maxSelWeight)

\* The mutant of shouldRemove: a clause older than the age limit is judged
\* by its weight, not by its effective weight.
shouldRemove_Weight(cl, ageLimit, weightLimit) ==
  IF age(cl) > ageLimit
    THEN weight(cl) > weightLimit
    ELSE weight(cl) - MaxSelWeightFrom(cl, 0, 0) >= weightLimit

\* shouldRemove of a clause whose age is at least ageLimit.
shouldRemove(cl, ageLimit, weightLimit) ==
  IF age(cl) > ageLimit
    THEN getEffectiveWeight(cl) > weightLimit
    ELSE weight(cl) - MaxSelWeightFrom(cl, 0, 0) >= weightLimit

\* The mutant of CheckedContains: no clause is taken as checked.
CheckedContains_Never(checked, cl) == FALSE

\* checked.contains(cl)
CheckedContains(checked, cl) == cl \in checked

\* The fields of the state a run of onLimitsUpdated works on.
PassState ==
  [lrs |-> lrs, activeSize |-> activeSize, active |-> active, gis |-> gis,
   indices |-> indices, store |-> store, discarded |-> discardedNonRedundantClauses]

\* The mutant of LrsRemoveStep: the clause is removed from Active twice.
LrsRemoveStep_Twice(ps) ==
  LET removed == ps.lrs.toRemove[Len(ps.lrs.toRemove)]
      counted == [ps EXCEPT !.discarded = @ + 1,
                            !.lrs.toRemove = SubSeq(@, 1, Len(@) - 1),
                            !.lrs.removed = Append(@, removed)]
  IN  ActiveRemoveStep(ActiveRemoveStep(counted, removed), removed)

\* One turn of the second loop: the top of toRemove is removed.
LrsRemoveStep(ps) ==
  LET removed == ps.lrs.toRemove[Len(ps.lrs.toRemove)]
      counted == [ps EXCEPT !.discarded = @ + 1,
                            !.lrs.toRemove = SubSeq(@, 1, Len(@) - 1),
                            !.lrs.removed = Append(@, removed)]
  IN  ActiveRemoveStep(counted, removed)

\* The mutant of LrsWalkStep: a clause to remove is removed as soon as the
\* walk finds it.
LrsWalkStep_RemoveAtOnce(ps, e) ==
  LET cl == e.clause
      rest == ps.lrs.rit \ {e}
      moved == [ps EXCEPT !.lrs.rit = rest,
                          !.lrs.pc = IF rest = {} THEN "remove" ELSE "walk"]
  IN  IF age(cl) < limits.ageLimit \/ CheckedContains(ps.lrs.checked, cl)
        THEN moved
        ELSE IF shouldRemove(cl, limits.ageLimit, limits.weightLimit)
          THEN [LrsRemoveStep([moved EXCEPT !.lrs.toRemove = Append(@, cl)])
                  EXCEPT !.lrs.checked = @ \cup {cl}]
          ELSE [moved EXCEPT !.lrs.checked = @ \cup {cl}]

\* One turn of the first loop, on the index entry e the iterator yields.
LrsWalkStep(ps, e) ==
  LET cl == e.clause
      rest == ps.lrs.rit \ {e}
      moved == [ps EXCEPT !.lrs.rit = rest,
                          !.lrs.pc = IF rest = {} THEN "remove" ELSE "walk"]
  IN  IF age(cl) < limits.ageLimit \/ CheckedContains(ps.lrs.checked, cl)
        THEN moved
        ELSE [moved EXCEPT
                !.lrs.checked = @ \cup {cl},
                !.lrs.toRemove =
                   IF shouldRemove(cl, limits.ageLimit, limits.weightLimit)
                     THEN Append(@, cl) ELSE @]

\* The mutant of ReturnsEarly: only a loosening of the limits ends the call.
ReturnsEarly_OnlyLoosened(change) == change = "LIMITS_LOOSENED"

\* The three early returns of ActiveClauseContainer::onLimitsUpdated.
ReturnsEarly(change) ==
  \/ change = "LIMITS_LOOSENED"
  \/ ~gis.present
  \/ ~ageLimited \/ ~weightLimited

\* ActiveClauseContainer::onLimitsUpdated, up to the first loop.
ActiveOnLimitsUpdated(change) ==
  /\ lrs.pc = "idle"
  /\ discardedNonRedundantClauses < MaxDiscarded
  /\ LET returns == ReturnsEarly(change)
     IN  /\ lrs' = IF returns
                     THEN LrsIdle
                     ELSE [pc |-> IF gis.entries = {} THEN "remove" ELSE "walk",
                           rit |-> gis.entries, checked |-> {},
                           toRemove |-> <<>>, removed |-> <<>>,
                           activeAtStart |-> active,
                           discardedAtStart |-> discardedNonRedundantClauses]
         /\ lastOp' = [op |-> "onLimitsUpdated", change |-> change,
                       returned |-> returns, activeAtStart |-> active]
  /\ UNCHANGED <<pc, optRatios, optCutoffs, splitQueueFadeIn, ageWeightRatio,
                 isOutermost, cutoffs, ratios, balances, simulationBalances,
                 simulationTaken, queues>>
  /\ UNCHANGED <<evt, indices, inference, store, unprocessed, active, activeSize, gis, limits,
                 discardedNonRedundantClauses>>

\* The state after a step of the run that leads to the fields ps.
PassStateBecomes(ps) ==
  /\ lrs' = ps.lrs
  /\ activeSize' = ps.activeSize
  /\ active' = ps.active
  /\ gis' = ps.gis
  /\ indices' = ps.indices
  /\ store' = ps.store
  /\ discardedNonRedundantClauses' = ps.discarded
  /\ UNCHANGED <<pc, optRatios, optCutoffs, splitQueueFadeIn, ageWeightRatio,
                 isOutermost, cutoffs, ratios, balances, simulationBalances,
                 simulationTaken, queues>>
  /\ UNCHANGED <<evt, inference, unprocessed, limits>>

\* ActiveClauseContainer::onLimitsUpdated, one turn of the loop over the
\* index; the iterator yields the entries in an order of its own.
ActiveOnLimitsUpdatedWalk ==
  /\ lrs.pc = "walk"
  /\ \E e \in lrs.rit :
       /\ PassStateBecomes(LrsWalkStep(PassState, e))
       /\ lastOp' = Op("walk", e.clause, NoIndex, NoIndex, <<>>)

\* ActiveClauseContainer::onLimitsUpdated, one turn of the loop over toRemove.
ActiveOnLimitsUpdatedRemove ==
  /\ lrs.pc = "remove"
  /\ lrs.toRemove # <<>>
  /\ PassStateBecomes(LrsRemoveStep(PassState))
  /\ lastOp' = Op("discard", lrs.toRemove[Len(lrs.toRemove)], NoIndex, NoIndex,
                  <<Event("removed", lrs.toRemove[Len(lrs.toRemove)])>>)

\* ActiveClauseContainer::onLimitsUpdated returns.
ActiveOnLimitsUpdatedReturn ==
  /\ lrs.pc = "remove"
  /\ lrs.toRemove = <<>>
  /\ PassStateBecomes([PassState EXCEPT !.lrs = LrsIdle])
  /\ lastOp' = [op |-> "return", removed |-> lrs.removed,
                activeAtStart |-> lrs.activeAtStart,
                discardedAtStart |-> lrs.discardedAtStart]

\* ------------------------------------------------------- the specifications
\* The options the container is constructed from.
Configs ==
  { [ratios |-> <<4, 1>>, cutoffs |-> <<5, 10>>, fadeIn |-> FALSE, outermost |-> TRUE],
    [ratios |-> <<1, 2, 1>>, cutoffs |-> <<0, 5, 10>>, fadeIn |-> FALSE, outermost |-> TRUE],
    [ratios |-> <<32768, 65536>>, cutoffs |-> <<5, 10>>, fadeIn |-> TRUE, outermost |-> FALSE] }

\* The state outside the predicate-split container, at the start.
InitSaturation ==
  /\ inference = NoInference
  /\ store = [cl \in Clauses |-> "NONE"]
  /\ unprocessed = <<>>
  /\ active = <<>>
  /\ activeSize = 0
  /\ gis = [present |-> TRUE, entries |-> {}]
  /\ limits = [ageLimit |-> NoLimit, weightLimit |-> NoLimit]
  /\ lrs = LrsIdle
  /\ evt = EventIdle
  /\ indices = NoTriples
  /\ discardedNonRedundantClauses = 0

\* The predicate-split container before its construction from one of the
\* configurations cfgs.
InitPassive(cfgs) ==
  /\ pc = "init"
  /\ \E cfg \in cfgs :
       /\ optRatios = cfg.ratios
       /\ optCutoffs = cfg.cutoffs
       /\ splitQueueFadeIn = cfg.fadeIn
       /\ isOutermost = cfg.outermost
  /\ ageWeightRatio = <<1, 1>>
  /\ cutoffs = <<>>
  /\ ratios = <<>>
  /\ balances = <<>>
  /\ simulationBalances = <<>>
  /\ simulationTaken = {}
  /\ queues = <<>>
  /\ lastOp = Op("none", NoClause, NoIndex, NoIndex, <<>>)

InitOf(cfgs) == InitPassive(cfgs) /\ InitSaturation

\* Every operation of the container, on the configurations of two queues.
Init == InitOf({cfg \in Configs : Len(cfg.ratios) = 2})

Next ==
  \/ Constructor
  \/ \E cl \in Clauses : add(cl)
  \/ \E cl \in Clauses : remove(cl)
  \/ popSelected
  \/ simulationInit
  \/ simulationHasNext
  \/ simulationPopSelected
  \/ setLimitsToMax
  \/ setLimitsFromSimulation
  \/ onLimitsUpdated

Spec == Init /\ [][Next]_vars

InitAll == InitOf(Configs)

\* The container without LRS, on every configuration: no limit is ever set.
NextNoLimits ==
  \/ Constructor
  \/ \E cl \in Clauses : add(cl)
  \/ \E cl \in Clauses : remove(cl)
  \/ popSelected
  \/ simulationInit
  \/ simulationHasNext
  \/ simulationPopSelected

SpecNoLimits == InitAll /\ [][NextNoLimits]_vars

\* The container under LRS limit updates, on every configuration.
NextLimits ==
  \/ Constructor
  \/ \E cl \in Clauses : add(cl)
  \/ \E cl \in Clauses : remove(cl)
  \/ popSelected
  \/ simulationInit
  \/ setLimitsToMax
  \/ setLimitsFromSimulation
  \/ onLimitsUpdated

SpecLimits == InitAll /\ [][NextLimits]_vars

\* The admission predicates of the container under the limits of its queues.
NextAdmission ==
  \/ Constructor
  \/ \E cl \in Clauses : add(cl)
  \/ \E cl \in Clauses : remove(cl)
  \/ simulationInit
  \/ setLimitsToMax
  \/ setLimitsFromSimulation
  \/ \E cl \in Clauses : fulfilsLimits(cl)

SpecAdmission == InitAll /\ [][NextAdmission]_vars

\* The settings of the limits.
LimitSettings ==
  [ageLimit : {NoLimit} \cup AgeLimits, weightLimit : {NoLimit} \cup (0 .. MaxWeightLimit)]

\* The Active container under limit changes, with and without a generating
\* literal index.
InitActive ==
  /\ InitPassive({cfg \in Configs : Len(cfg.ratios) = 3})
  /\ inference = NoInference
  /\ store = [cl \in Clauses |-> "NONE"]
  /\ unprocessed = <<>>
  /\ active = <<>>
  /\ activeSize = 0
  /\ gis \in {[present |-> b, entries |-> {}] : b \in BOOLEAN}
  /\ limits = [ageLimit |-> NoLimit, weightLimit |-> NoLimit]
  /\ lrs = LrsIdle
  /\ evt = EventIdle
  /\ indices = NoTriples
  /\ discardedNonRedundantClauses = 0

NextActive ==
  \/ \E cl \in Clauses : setStore(cl, "ACTIVE")
  \/ \E cl \in Clauses : ActiveAdd(cl)
  \/ \E cl \in Clauses : ActiveRemove(cl)
  \/ \E l \in LimitSettings : setLimits(l)
  \/ \E change \in {"LIMITS_LOOSENED", "LIMITS_TIGHTENED"} : ActiveOnLimitsUpdated(change)
  \/ ActiveOnLimitsUpdatedWalk
  \/ ActiveOnLimitsUpdatedRemove
  \/ ActiveOnLimitsUpdatedReturn

SpecActive == InitActive /\ [][NextActive]_vars

\* The values of Clause::store the saturation loop gives a clause.
Stores == {"NONE", "UNPROCESSED", "PASSIVE", "ACTIVE"}

\* The three containers and the stores of the clauses.
InitContainers == InitOf({cfg \in Configs : cfg.ratios = <<4, 1>>})

NextContainers ==
  \/ Constructor
  \/ \E cl \in Clauses, st \in Stores : setStore(cl, st)
  \/ \E cl \in Clauses : UnprocessedAdd(cl)
  \/ UnprocessedPop
  \/ UnprocessedPopEmpty
  \/ \E cl \in Clauses : PassiveAdd(cl)
  \/ \E cl \in Clauses : PassiveRemove(cl)
  \/ popSelected
  \/ \E cl \in Clauses : ActiveAdd(cl)
  \/ \E cl \in Clauses : ActiveRemove(cl)

SpecContainers == InitContainers /\ [][NextContainers]_vars

\* ------------------------------------------------------ the vltb executable
\* EXIT_SUCCESS of <cstdlib>.
EXIT_SUCCESS == 0

\* The modes the switch of main names: each of them is a user error.
UnsupportedModes ==
  {"MODE_GROUNDING", "MODE_SPIDER", "MODE_CONSEQUENCE_FINDING", "MODE_VAMPIRE",
   "MODE_CASC", "MODE_CLAUSIFY", "MODE_PROFILE", "MODE_RULE"}

\* main up to the switch: the command line is read and interpreted, which
\* gives the mode or throws.  VDEBUG is the build; thrown is what the
\* interpretation of the command line throws, "none" when it returns.
MainEnter ==
  /\ lastOp.op # "main"
  /\ \E mode \in UnsupportedModes \cup {"MODE_LTB_SCAN", "MODE_LTB_SOLVE"},
        VDEBUG \in BOOLEAN,
        thrown \in {"none", "UserErrorException", "Exception", "bad_alloc"} :
       lastOp' = [op |-> "main", at |-> IF thrown = "none" THEN "switch" ELSE "catch",
                  mode |-> mode, VDEBUG |-> VDEBUG, exception |-> thrown,
                  out |-> <<>>, exit |-> NoIndex]
  /\ UNCHANGED <<pc, optRatios, optCutoffs, splitQueueFadeIn, ageWeightRatio,
                 isOutermost, cutoffs, ratios, balances, simulationBalances,
                 simulationTaken, queues>>
  /\ UNCHANGED saturationVars

\* main, the switch over the mode: USER_ERROR for the modes it names; for
\* another mode the default of the debug build is an assertion violation,
\* and the release build has no case and goes on.
MainSwitch ==
  /\ lastOp.op = "main"
  /\ lastOp.at = "switch"
  /\ lastOp' =
       IF lastOp.mode \in UnsupportedModes
         THEN [lastOp EXCEPT !.at = "catch", !.exception = "UserErrorException"]
       ELSE IF lastOp.VDEBUG
         THEN [lastOp EXCEPT !.at = "catch", !.exception = "AssertionViolationException"]
       ELSE [lastOp EXCEPT !.at = "return"]
  /\ UNCHANGED <<pc, optRatios, optCutoffs, splitQueueFadeIn, ageWeightRatio,
                 isOutermost, cutoffs, ratios, balances, simulationBalances,
                 simulationTaken, queues>>
  /\ UNCHANGED saturationVars

\* main, the catch clauses: the exception is explained on the output and the
\* handler ends; control goes on behind the try statement.
MainCatch ==
  /\ lastOp.op = "main"
  /\ lastOp.at = "catch"
  /\ lastOp' =
       [lastOp EXCEPT
          !.at = "return",
          !.out = CASE lastOp.exception = "AssertionViolationException" -> <<>>
                    [] lastOp.exception = "UserErrorException" -> <<"cry">>
                    [] lastOp.exception = "Exception" -> <<"cry", "statistics">>
                    [] lastOp.exception = "bad_alloc" -> <<"Insufficient system memory">>]
  /\ UNCHANGED <<pc, optRatios, optCutoffs, splitQueueFadeIn, ageWeightRatio,
                 isOutermost, cutoffs, ratios, balances, simulationBalances,
                 simulationTaken, queues>>
  /\ UNCHANGED saturationVars

\* main, its last statement: return EXIT_SUCCESS.
MainReturn ==
  /\ lastOp.op = "main"
  /\ lastOp.at = "return"
  /\ lastOp' = [lastOp EXCEPT !.at = "exited", !.exit = EXIT_SUCCESS]
  /\ UNCHANGED <<pc, optRatios, optCutoffs, splitQueueFadeIn, ageWeightRatio,
                 isOutermost, cutoffs, ratios, balances, simulationBalances,
                 simulationTaken, queues>>
  /\ UNCHANGED saturationVars

NextMain ==
  \/ MainEnter
  \/ MainSwitch
  \/ MainCatch
  \/ MainReturn

\* The executable from its start; no container is touched.
SpecMain == InitContainers /\ [][NextMain]_vars

\* -------------------------------------------- the age/weight container alone
\* Seven clauses to fill an age/weight container with, in the order of their
\* insertion: an old heavy one, an old light one, five young light ones
\* (ages 0, 0, 1, 1, 1, 1, 1 and weights 3, 1, 1, 1, 1, 1, 1).  The container
\* only compares ages and weights.
AWClauses == <<2, 6, 3, 9, 15, 21, 27>>

\* AWPassiveClauseContainer::add of the next of these clauses, before any
\* clause has been taken.
AWPassiveAdd ==
  /\ lastOp.op \in {"none", "AWadd"}
  /\ Len(queues[0].cls) < Len(AWClauses)
  /\ queues' = [queues EXCEPT ![0] = AWAdd(@, AWClauses[Len(queues[0].cls) + 1])]
  /\ lastOp' = [op |-> "AWadd", cl |-> AWClauses[Len(queues[0].cls) + 1],
                added |-> Len(queues[0].cls) + 1, popped |-> <<>>]
  /\ UNCHANGED <<pc, optRatios, optCutoffs, splitQueueFadeIn, ageWeightRatio,
                 isOutermost, cutoffs, ratios, balances, simulationBalances,
                 simulationTaken>>
  /\ UNCHANGED saturationVars

\* AWPassiveClauseContainer::popSelected; popped: the clauses returned so
\* far, in the order of the calls.
AWPassivePopSelected ==
  /\ lastOp.op \in {"AWadd", "AWpopSelected"}
  /\ ~AWIsEmpty(queues[0])
  /\ queues' = [queues EXCEPT ![0] = AWPopSelected(@)]
  /\ lastOp' = [op |-> "AWpopSelected", cl |-> AWSelected(queues[0]),
                added |-> lastOp.added,
                popped |-> Append(lastOp.popped, AWSelected(queues[0]))]
  /\ UNCHANGED <<pc, optRatios, optCutoffs, splitQueueFadeIn, ageWeightRatio,
                 isOutermost, cutoffs, ratios, balances, simulationBalances,
                 simulationTaken>>
  /\ UNCHANGED saturationVars

\* A fresh age/weight container under one of three age/weight ratios.
InitAW ==
  /\ pc = "init"
  /\ optRatios = <<>>
  /\ optCutoffs = <<>>
  /\ splitQueueFadeIn = FALSE
  /\ isOutermost = TRUE
  /\ ageWeightRatio \in {<<1, 1>>, <<1, 5>>, <<5, 1>>}
  /\ cutoffs = <<>>
  /\ ratios = <<>>
  /\ balances = <<>>
  /\ simulationBalances = <<>>
  /\ simulationTaken = {}
  /\ queues = [i \in {0} |-> AWNew]
  /\ lastOp = Op("none", NoClause, NoIndex, NoIndex, <<>>)
  /\ InitSaturation

NextAW ==
  \/ AWPassiveAdd
  \/ AWPassivePopSelected

SpecAW == InitAW /\ [][NextAW]_vars

\* One event, its handlers and the calls of fire on it.
InitEvent == InitOf({cfg \in Configs : cfg.ratios = <<4, 1>>})

NextEvent ==
  \/ \E h \in Handlers : EventSubscribe(h)
  \/ \E h \in Handlers : EventUnsubscribe(h)
  \/ EventFire
  \/ EventInvoke
  \/ EventHandlerReturns
  \/ EventFireReturns

SpecEvent == InitEvent /\ [][NextEvent]_vars

\* ---------------------------------------- the constructor on bounded options
RatioValues == {0, 1, 2, 3, 65536}
CutoffValues == {NaN, 0 - 1, 0, 5, 10, 11}

SeqsUpTo(S, n) == UNION {[1 .. k -> S] : k \in 0 .. n}

InitCtor ==
  /\ pc = "init"
  /\ InitSaturation
  /\ optRatios \in SeqsUpTo(RatioValues, MaxLen)
  /\ optCutoffs \in SeqsUpTo(CutoffValues, MaxLen)
  /\ splitQueueFadeIn = FALSE
  /\ ageWeightRatio = <<1, 1>>
  /\ isOutermost = TRUE
  /\ cutoffs = <<>>
  /\ ratios = <<>>
  /\ balances = <<>>
  /\ simulationBalances = <<>>
  /\ simulationTaken = {}
  /\ queues = <<>>
  /\ lastOp = Op("none", NoClause, NoIndex, NoIndex, <<>>)

SpecCtor == InitCtor /\ [][Constructor]_vars

\* -------------------------- bestQueueHeuristics on bounded inferences
\* The cutoffs a constructed container may have: the lists the sanity checks
\* of the constructor accept.
BestQueueCutoffValues == {0, 5, 8, 10}

ValidCutoffs ==
  {cs \in SeqsUpTo(BestQueueCutoffValues, MaxLen) :
     UserError([i \in DOMAIN cs |-> 1], cs) = "none"}

\* The counters an inference carries: a clause has at least one ancestor, and
\* its theory ancestors are among its ancestors.
Inferences ==
  {inf \in [th_ancestors : 0 .. MaxAncestors, all_ancestors : 1 .. MaxAncestors] :
     inf.th_ancestors <= inf.all_ancestors}

InitBestQueue ==
  /\ pc = "constructed"
  /\ \E cs \in ValidCutoffs :
       /\ optCutoffs = cs
       /\ optRatios = [i \in DOMAIN cs |-> 1]
       /\ cutoffs = [i \in 0 .. Len(cs) - 1 |-> cs[i + 1]]
       /\ ratios = [i \in 0 .. Len(cs) - 1 |-> 1]
       /\ balances = [i \in 0 .. Len(cs) - 1 |-> 0]
       /\ queues = [i \in 0 .. Len(cs) - 1 |-> AWNew]
  /\ splitQueueFadeIn \in BOOLEAN
  /\ ageWeightRatio = <<1, 1>>
  /\ isOutermost = TRUE
  /\ simulationBalances = <<>>
  /\ simulationTaken = {}
  /\ lastOp = Op("constructor", NoClause, NoIndex, NoIndex, <<>>)
  /\ inference \in Inferences
  /\ store = [cl \in Clauses |-> "NONE"]
  /\ unprocessed = <<>>
  /\ active = <<>>
  /\ activeSize = 0
  /\ gis = [present |-> TRUE, entries |-> {}]
  /\ limits = [ageLimit |-> NoLimit, weightLimit |-> NoLimit]
  /\ lrs = LrsIdle
  /\ evt = EventIdle
  /\ indices = NoTriples
  /\ discardedNonRedundantClauses = 0

SpecBestQueue == InitBestQueue /\ [][bestQueueHeuristicsCall]_vars

\* ------------------------------------------------------------------ claims
\* C1: without a change of the LRS limits, after any sequence of add, remove
\* and popSelected every clause the container holds is in queue i for every
\* i from its best queue up to the last queue.
C1_SplitQueueCoverage ==
  pc = "constructed" =>
    \A cl \in Held(queues) :
      \A i \in DOMAIN queues :
        i >= bestQueueHeuristics(cl) => Holds(queues, i, cl)

\* C1, witness: after a remove the container still holds a clause whose best
\* queue is not the last one.
C1_Witness ==
  /\ pc = "constructed"
  /\ lastOp.op = "remove"
  /\ \E cl \in Held(queues) : bestQueueHeuristics(cl) < NumQueues - 1

\* C2: the clause popSelected returns is the head of the queue it is taken
\* from, is afterwards in none of the queues, and exactly one selected event
\* carrying it is fired, at a moment when no queue holds it any more.
C2_PopRemovesEverywhereThenFires ==
  [][popSelected =>
       LET cl == lastOp'.cl
           currIndex == lastOp'.currIndex
       IN  /\ currIndex \in DOMAIN queues
           /\ cl = AWSelected(queues[currIndex])
           /\ Holds(queues, currIndex, cl)
           /\ QueuesOf(queues', cl) = {}
           /\ lastOp'.fired =
                <<[event |-> "selected", clause |-> cl, inQueues |-> {}]>>]_vars

\* C2, witness: popSelected has returned a clause taken from a queue other
\* than the first, and no queue holds a clause any more.
C2_Witness ==
  /\ pc = "constructed"
  /\ lastOp.op = "popSelected"
  /\ lastOp.currIndex > 0
  /\ lastOp.cl \in Clauses
  /\ Len(lastOp.fired) = 1

\* C3: popSelected picks the queue q of least balance, the lowest index among
\* several, adds the internal weight of q to the balance of q and leaves
\* every other balance as it is, whether or not queue q holds a clause.
C3_LeastBalanceGetsItsWeight ==
  [][popSelected =>
       LET q == lastOp'.queueIndex
       IN  /\ q \in DOMAIN balances
           /\ \A j \in DOMAIN balances : balances[q] <= balances[j]
           /\ \A j \in DOMAIN balances : j < q => balances[j] > balances[q]
           /\ DOMAIN balances' = DOMAIN balances
           /\ balances'[q] = balances[q] + ratios[q]
           /\ \A j \in DOMAIN balances : j # q => balances'[j] = balances[j]]_vars

\* C3, witness: popSelected has charged a queue that held no clause.
C3_Witness ==
  /\ pc = "constructed"
  /\ lastOp.op = "popSelected"
  /\ lastOp.queueIndex # lastOp.currIndex
  /\ \E j \in DOMAIN balances : j # lastOp.queueIndex /\ balances[j] # 0

\* C4: the clause is taken from the first queue with a clause at or right of
\* the balance-selected queue q; only if there is none, from the nearest
\* queue with a clause left of q.
C4_RightThenNearestLeft ==
  [][(popSelected /\ pc' = "constructed") =>
       LET q == lastOp'.queueIndex
           currIndex == lastOp'.currIndex
           NonEmpty == {i \in DOMAIN queues : ~AWIsEmpty(queues[i])}
           Right == {i \in NonEmpty : i >= q}
           Left == {i \in NonEmpty : i < q}
       IN  /\ currIndex \in NonEmpty
           /\ lastOp'.cl \in Range(queues[currIndex].cls)
           /\ Right # {} => currIndex \in Right /\ \A i \in Right : currIndex <= i
           /\ Right = {} => currIndex \in Left /\ \A i \in Left : i <= currIndex]_vars

\* C4, witness: the last of three queues was selected and held no clause,
\* and the clause was taken from the queue next to it on the left.
C4_Witness ==
  /\ pc = "constructed"
  /\ lastOp.op = "popSelected"
  /\ lastOp.queueIndex = 2
  /\ lastOp.currIndex = 1

\* C5: with a clause in at least one queue popSelected reads no queue
\* outside 0 .. N-1 and returns a clause the container held.
C5_PopSelectedSucceeds ==
  [][popSelected =>
       /\ pc' = "constructed"
       /\ lastOp'.currIndex \in DOMAIN queues
       /\ lastOp'.cl \in Held(queues)
       /\ lastOp'.cl \notin Held(queues')]_vars

\* C5, witness: the last queue was selected while only the first queue held
\* a clause.
C5_Witness ==
  /\ pc = "constructed"
  /\ lastOp.op = "popSelected"
  /\ lastOp.currIndex = 0
  /\ lastOp.queueIndex = NumQueues - 1
  /\ NumQueues > 2

\* C6: no operation lets a balance decrease; a balance changes in
\* popSelected only, and then upward.
C6_BalancesNeverDecrease ==
  [][pc = "constructed" =>
       /\ \A i \in DOMAIN balances : balances'[i] >= balances[i]
       /\ balances' # balances => lastOp'.op = "popSelected"]_vars

\* C7: simulationInit, simulationHasNext and simulationPopSelected leave the
\* balances, the clauses, balances and limits of every queue unchanged and
\* fire no event; of the container's own fields only the simulation balances
\* change.
C7_SimulationLeavesRealStateAlone ==
  [][(simulationInit \/ simulationHasNext \/ simulationPopSelected) =>
       /\ pc' = pc
       /\ balances' = balances
       /\ ratios' = ratios
       /\ cutoffs' = cutoffs
       /\ DOMAIN queues' = DOMAIN queues
       /\ \A i \in DOMAIN queues :
            /\ queues'[i].cls = queues[i].cls
            /\ queues'[i].ageBalance = queues[i].ageBalance
            /\ queues'[i].weightBalance = queues[i].weightBalance
            /\ queues'[i].ageLimit = queues[i].ageLimit
            /\ queues'[i].weightLimit = queues[i].weightLimit
       /\ lastOp'.fired = <<>>]_vars

\* C7, witness: a simulated pop has moved the simulation balances away from
\* the balances while the container holds a clause.
C7_Witness ==
  /\ pc = "constructed"
  /\ lastOp.op = "simulationPopSelected"
  /\ simulationBalances # balances
  /\ Held(queues) # {}

\* The queue and the clause of each popSelected of a run of popSelected from
\* the balances bal and the queues qs, until the container is empty.
RECURSIVE RealPops(_, _)
RealPops(bal, qs) ==
  IF isEmpty(qs) THEN <<>>
  ELSE LET r == PopSelectedStep(bal, qs)
       IN  IF ~r.defined THEN <<[queue |-> r.currIndex, cl |-> NoClause]>>
           ELSE <<[queue |-> r.currIndex, cl |-> r.cl]>>
                  \o RealPops(r.balances, r.queues)

\* The queue and the clause of each simulationPopSelected of a rehearsal from
\* the simulation balances sim, until simulationHasNext is false.
RECURSIVE SimulationPops(_, _, _)
SimulationPops(sim, qs, taken) ==
  IF ~simulationHasNextValue(qs, taken) THEN <<>>
  ELSE LET r == SimulationPopSelectedStep(balances, sim, qs, taken)
       IN  IF ~r.defined THEN <<[queue |-> r.currIndex, cl |-> NoClause]>>
           ELSE <<[queue |-> r.currIndex, cl |-> r.cl]>>
                  \o SimulationPops(r.simulationBalances, r.queues, r.taken)

SameFraction(x, y) == x[1] * y[2] = y[1] * x[2]

\* C11: the niceness is th_ancestors / all_ancestors, except that with
\* fade-in it is 0.0 when th_ancestors <= 2, 0.5 when th_ancestors = 3 and
\* all_ancestors <= 6, 0.8 when th_ancestors = 4 and all_ancestors <= 5;
\* without fade-in it is always the quotient.
C11_NicenessWithFadeIn ==
  lastOp.op = "bestQueueHeuristics" =>
    LET th == inference.th_ancestors
        all == inference.all_ancestors
        n == lastOp.niceness
    IN  /\ ~splitQueueFadeIn => SameFraction(n, <<th, all>>)
        /\ (splitQueueFadeIn /\ th <= 2) => SameFraction(n, <<0, 1>>)
        /\ (splitQueueFadeIn /\ th = 3 /\ all <= 6) => SameFraction(n, <<1, 2>>)
        /\ (splitQueueFadeIn /\ th = 4 /\ all <= 5) => SameFraction(n, <<4, 5>>)
        /\ (splitQueueFadeIn /\ ~(th <= 2) /\ ~(th = 3 /\ all <= 6)
              /\ ~(th = 4 /\ all <= 5)) => SameFraction(n, <<th, all>>)

\* C11, witness: with fade-in, an inference with 4 theory ancestors among 6
\* ancestors has got the quotient, not 0.8.
C11_Witness ==
  /\ lastOp.op = "bestQueueHeuristics"
  /\ splitQueueFadeIn
  /\ inference = [th_ancestors |-> 4, all_ancestors |-> 6]
  /\ lastOp.niceness = <<4, 6>>

\* C12: for every inference bestQueueHeuristics returns a queue index in
\* 0 .. N-1, the smallest index whose cutoff is at least the niceness.
C12_BestQueueIsSmallestAdmitting ==
  lastOp.op = "bestQueueHeuristics" =>
    LET n == lastOp.niceness
        i == lastOp.queueIndex
        AtMost(j) == n[1] * 10 <= cutoffs[j] * n[2]
    IN  /\ i \in DOMAIN queues
        /\ AtMost(i)
        /\ \A j \in DOMAIN queues : j < i => ~AtMost(j)

\* C12, witness: an inference all of whose ancestors are theory ancestors
\* has got the last of three queues.
C12_Witness ==
  /\ lastOp.op = "bestQueueHeuristics"
  /\ ~splitQueueFadeIn
  /\ inference.th_ancestors = inference.all_ancestors
  /\ Cardinality(DOMAIN queues) = 3
  /\ lastOp.queueIndex = 2

\* C13: fulfilsAgeLimit (fulfilsWeightLimit) of the container is true of a
\* clause exactly if some queue from the best queue of the clause to the last
\* admits the clause under its own age (weight) limit; the limits of the
\* queues left of the best queue play no part.
C13_AdmittedByADestinationQueue ==
  lastOp.op = "fulfilsLimits" =>
    LET cl == lastOp.cl
        Destinations == {i \in DOMAIN queues : i >= bestQueueHeuristics(cl)}
    IN  /\ lastOp.fulfilsAgeLimit <=>
             \E i \in Destinations : AWFulfilsAgeLimit(queues[i], cl)
        /\ lastOp.fulfilsWeightLimit <=>
             \E i \in Destinations : AWFulfilsWeightLimit(queues[i], cl)

\* C13, witness: fulfilsWeightLimit is false of a clause that a queue left
\* of its best queue would admit.
C13_Witness ==
  /\ lastOp.op = "fulfilsLimits"
  /\ ~lastOp.fulfilsWeightLimit
  /\ \E i \in DOMAIN queues :
       /\ i < bestQueueHeuristics(lastOp.cl)
       /\ AWFulfilsWeightLimit(queues[i], lastOp.cl)

\* The configuration is invalid, as the specification lists the violations.
InvalidConfig(rs, cs) ==
  \/ Len(rs) < 2
  \/ Len(rs) # Len(cs)
  \/ \E i \in 1 .. Len(rs) : rs[i] <= 0
  \/ \E i \in 1 .. Len(cs) : ~(cs[i] # NaN /\ 0 <= cs[i] /\ cs[i] <= 10)
  \/ \E i \in 2 .. Len(cs) : ~(cs[i - 1] < cs[i])
  \/ (Len(cs) > 0 /\ cs[Len(cs)] # 10)

\* C9: construction ends in a configuration error, with no queue created,
\* exactly when the parsed options have fewer than two ratios, a different
\* number of ratios and cutoffs, a ratio <= 0, a cutoff outside [0,1],
\* cutoffs not strictly increasing or a last cutoff other than 1; otherwise
\* it succeeds with one queue per ratio and every balance 0.
C9_ConfigErrorExactly ==
  pc # "init" =>
    /\ (pc = "userError") <=> InvalidConfig(optRatios, optCutoffs)
    /\ pc = "userError" => queues = <<>>
    /\ pc = "constructed" =>
         /\ DOMAIN queues = 0 .. Len(optRatios) - 1
         /\ DOMAIN balances = 0 .. Len(optRatios) - 1
         /\ \A i \in DOMAIN balances : balances[i] = 0

\* C9, witness: a configuration whose only fault is its last cutoff is
\* rejected.
C9_Witness ==
  pc = "userError" /\ optRatios = <<1, 2>> /\ optCutoffs = <<0, 5>>

\* The least common multiple of the numbers of a list of positive numbers.
RECURSIVE LcmOfList(_, _)
LcmOfList(rs, i) ==
  IF i > Len(rs) THEN 1
  ELSE LET rest == LcmOfList(rs, i + 1)
           hi == IF rs[i] >= rest THEN rs[i] ELSE rest
           lo == IF rs[i] >= rest THEN rest ELSE rs[i]
       IN  LeastMultiple(hi, lo, hi)

\* C10: for every valid list of positive ratios the internal weights are
\* w_i = L / r_i with L the least common multiple of the ratios: w_i * r_i = L
\* and w_i is a positive integer.
C10_WeightsAreLcmOverRatio ==
  pc = "constructed" =>
    \A i \in DOMAIN ratios :
      /\ ratios[i] > 0
      /\ ratios[i] * optRatios[i + 1] = LcmOfList(optRatios, 1)

\* ---------------------------------------------- the LRS pass over Active

\* The greatest weight among the selected literals of the clause.
MaxSelectedLiteralWeight(cl) ==
  CHOOSE w \in {LitWeights(cl)[i] : i \in 1 .. selected(cl)} :
    \A i \in 1 .. selected(cl) : LitWeights(cl)[i] <= w

\* The discard predicate of the limited resource strategy under the limits l.
DiscardPredicate(cl, l) ==
  \/ age(cl) > l.ageLimit /\ getEffectiveWeight(cl) > l.weightLimit
  \/ age(cl) = l.ageLimit /\ weight(cl) - MaxSelectedLiteralWeight(cl) >= l.weightLimit

\* C14: when a TIGHTENED pass returns, the clauses it removed are exactly the
\* clauses of the Active container, each reached through the generating
\* literal index, that are older than ageLimit with an effective weight above
\* weightLimit, or of age ageLimit with weight minus the greatest selected
\* literal weight at least weightLimit; a clause younger than ageLimit is
\* kept.
C14_RemovedIffDiscardPredicate ==
  lastOp.op = "return" =>
    /\ Range(lastOp.removed) =
         {cl \in Range(lastOp.activeAtStart) : DiscardPredicate(cl, limits)}
    /\ \A cl \in Range(lastOp.activeAtStart) :
         age(cl) < limits.ageLimit => cl \in Range(active)

\* C14, witness: a pass has removed a clause whose age is the age limit and
\* has kept a younger one.
C14_Witness ==
  /\ lastOp.op = "return"
  /\ \E cl \in Range(lastOp.removed) : age(cl) = limits.ageLimit
  /\ \E cl \in Range(active) : age(cl) < limits.ageLimit


\* C15: after every run of onLimitsUpdated(LIMITS_TIGHTENED) has returned,
\* under every setting of the two limits and whatever the Active container
\* holds, no clause still in the Active container satisfies the discard
\* predicate.
C15_NoActiveClauseDiscardable ==
  (/\ ageLimited /\ weightLimited
   /\ \/ lastOp.op = "return"
      \/ /\ lastOp.op = "onLimitsUpdated"
         /\ lastOp.change = "LIMITS_TIGHTENED"
         /\ lastOp.returned)
  => \A cl \in Range(active) : ~DiscardPredicate(cl, limits)


\* C16: as long as the walk of a TIGHTENED run over the generating literal
\* index has entries left to read, no step removes a clause: the Active
\* container, its size, the index, the stores and the counter of discarded
\* clauses stay as they are and no removed event has been fired; the clauses
\* to discard are only collected.
C16_NoRemovalBeforeWalkEnds ==
  [][lrs.pc = "walk" =>
       /\ active' = active
       /\ activeSize' = activeSize
       /\ gis' = gis
       /\ store' = store
       /\ discardedNonRedundantClauses' = discardedNonRedundantClauses
       /\ lrs'.removed = <<>>
       /\ Range(lrs.toRemove) \subseteq Range(lrs'.toRemove)]_vars

\* C16, witness: the walk has collected a clause to discard and still has an
\* index entry to read.
C16_Witness ==
  lrs.pc = "walk" /\ lrs.toRemove # <<>> /\ lrs.rit # {}


\* The sequence read from its last element to its first.
Reversed(seq) == [k \in 1 .. Len(seq) |-> seq[Len(seq) + 1 - k]]

\* C17: the removed events of one run of onLimitsUpdated come in the reverse
\* of the order in which the discarded clauses were added to the Active
\* container.
C17_RemovedInReverseOfAdded ==
  lastOp.op = "return" =>
    lastOp.removed =
      Reversed(SelectSeq(lastOp.activeAtStart,
                         LAMBDA cl : cl \in Range(lastOp.removed)))


\* C18: when a run of onLimitsUpdated returns, every clause it discarded has
\* been removed exactly once, whatever the number of its entries in the
\* generating literal index: no clause has two removed events, the counter
\* discardedNonRedundantClauses, the number of removed events and the drop of
\* the size of the Active container are each the number of distinct discarded
\* clauses, and every discarded clause has store NONE and is no longer in
\* the Active container.
C18_DiscardedExactlyOnce ==
  lastOp.op = "return" =>
    LET discarded == Range(lastOp.removed)
    IN  /\ Len(lastOp.removed) = Cardinality(discarded)
        /\ discardedNonRedundantClauses - lastOp.discardedAtStart
             = Cardinality(discarded)
        /\ Len(lastOp.activeAtStart) - activeSize = Cardinality(discarded)
        /\ \A cl \in discarded :
             /\ cl \in Range(lastOp.activeAtStart)
             /\ store[cl] = "NONE"
             /\ cl \notin Range(active)
             /\ \A e \in gis.entries : e.clause # cl

\* C18, witness: a run has discarded a clause that had two entries in the
\* generating literal index.
C18_Witness ==
  /\ lastOp.op = "return"
  /\ \E cl \in Range(lastOp.removed) : Cardinality(IndexEntries(cl)) >= 2


\* ------------------------------------------- the stores and the containers

\* The operations of the three containers, as lastOp names them.
ContainerOperations ==
  {"UnprocessedAdd", "UnprocessedPop", "add", "remove", "popSelected",
   "ActiveAdd", "ActiveRemove"}

\* The stores of the containers that hold the clause.
ContainersOf(cl, u, q, a) ==
  {st \in Stores : \/ st = "UNPROCESSED" /\ cl \in Range(u)
                   \/ st = "PASSIVE" /\ cl \in Held(q)
                   \/ st = "ACTIVE" /\ cl \in Range(a)}

\* C19: after any sequence of container operations every clause is in at
\* most one of the Unprocessed, Passive and Active containers, and its store
\* names that container, or is NONE when the clause is in no container.
C19_StoreMirrorsContainer ==
  lastOp.op \in ContainerOperations =>
    \A cl \in Clauses :
      LET holders == ContainersOf(cl, unprocessed, queues, active)
      IN  /\ Cardinality(holders) <= 1
          /\ holders = {} => store[cl] = "NONE"
          /\ \A st \in holders : store[cl] = st

\* C20: the container a clause enters or leaves sets the store of the clause
\* itself, whatever the store was at the call: after a step that puts a
\* clause into a container the store names that container, and after a step
\* that takes a clause out of its container into none the store is NONE.
C20_StoreSetByTheContainer ==
  [][\A cl \in Clauses :
       LET before == ContainersOf(cl, unprocessed, queues, active)
           after == ContainersOf(cl, unprocessed', queues', active')
       IN  /\ \A st \in after \ before : store'[cl] = st
           /\ (before # {} /\ after = {}) => store'[cl] = "NONE"]_vars


\* ---------------------------------------------- the Unprocessed container

\* C21: pop of the Unprocessed container returns the clause added most
\* recently among those not yet popped and fires selected for that clause
\* only: a pop that follows an add at once returns the clause of that add,
\* every add puts its clause above the clauses already held, and every pop
\* takes the clause on top and leaves the clauses below it as they were.
C21_PopIsStackOrder ==
  [][/\ lastOp'.op = "UnprocessedAdd" =>
          /\ Len(unprocessed') = Len(unprocessed) + 1
          /\ unprocessed'[Len(unprocessed')] = lastOp'.cl
          /\ SubSeq(unprocessed', 1, Len(unprocessed)) = unprocessed
     /\ lastOp'.op = "UnprocessedPop" =>
          /\ lastOp.op = "UnprocessedAdd" => lastOp'.cl = lastOp.cl
          /\ \A k \in 1 .. Len(unprocessed) - 1 :
               /\ unprocessed'[k] = unprocessed[k]
               /\ unprocessed[k] # lastOp'.cl
          /\ Len(unprocessed') = Len(unprocessed) - 1
          /\ lastOp'.cl = unprocessed[Len(unprocessed)]
          /\ lastOp'.fired = <<[event |-> "selected", clause |-> lastOp'.cl]>>]_vars

\* C21, witness: a pop has returned the later of two clauses added and has
\* left the earlier one in the container.
C21_Witness ==
  /\ lastOp.op = "UnprocessedPop"
  /\ Len(unprocessed) >= 1
  /\ lastOp.cl \notin Range(unprocessed)


ContainerOfOperation(op) ==
  IF op \in {"UnprocessedAdd", "UnprocessedPop"} THEN "UNPROCESSED"
  ELSE IF op \in {"add", "remove", "popSelected"} THEN "PASSIVE"
  ELSE "ACTIVE"

C24_AddedAfterAllInsertions ==
  lastOp.op = "add" =>
    /\ Len(lastOp.fired) = (IF isOutermost THEN 1 ELSE 0)
    /\ \A k \in DOMAIN lastOp.fired :
         /\ lastOp.fired[k].event = "added"
         /\ lastOp.fired[k].clause = lastOp.cl
         /\ lastOp.fired[k].inQueues =
              {i \in DOMAIN queues : i >= bestQueueHeuristics(lastOp.cl)}

\* C24, witness: added has been fired for a clause that went into two
\* queues.
C24_Witness ==
  /\ lastOp.op = "add"
  /\ lastOp.fired # <<>>
  /\ Cardinality(lastOp.fired[1].inQueues) >= 2


\* ------------------------------------------------------------- the event

\* C25: a call of fire during which no handler subscribes or unsubscribes
\* invokes every handler subscribed to the event exactly once, in the order
\* in which the handlers were subscribed.
C25_FireInSubscriptionOrder ==
  (/\ evt.last.op = "fireEnd"
   /\ evt.last.subscribed = {}
   /\ evt.last.unsubscribed = {})
  => /\ evt.last.invoked = evt.handlers
     /\ evt.last.atStart = evt.handlers
     /\ Range(evt.last.invoked) = evt.live
     /\ \A j, k \in DOMAIN evt.last.invoked :
          j # k => evt.last.invoked[j] # evt.last.invoked[k]

\* C25, witness: a call of fire has invoked three handlers that were
\* subscribed in another order than that of their numbers.
C25_Witness ==
  /\ evt.last.op = "fireEnd"
  /\ evt.last.subscribed = {}
  /\ evt.last.unsubscribed = {}
  /\ Len(evt.last.invoked) = 3
  /\ evt.last.invoked[1] > evt.last.invoked[2]


\* The number of times the handler occurs in the sequence of invocations.
Invocations(invoked, h) == Cardinality({k \in DOMAIN invoked : invoked[k] = h})

\* C26: a handler subscribed from inside a handler while fire is under way is
\* not invoked by that call of fire, and a call of fire made from inside a
\* handler of the same event returns having invoked the handlers that were
\* subscribed when it started and have stayed subscribed.
C26_LateSubscriberWaitsForNextFire ==
  evt.last.op = "fireEnd" =>
    /\ \A h \in evt.last.subscribed \ Range(evt.last.atStart) :
         h \notin Range(evt.last.invoked)
    /\ evt.last.depth >= 2 =>
         \A h \in Range(evt.last.atStart) \ evt.last.unsubscribed :
           h \in Range(evt.last.invoked)

\* C27: when a handler unsubscribes itself while fire invokes it, fire reads
\* no node that has been removed from the list of handlers, the run goes on,
\* and every handler that was subscribed when fire started and has stayed
\* subscribed is invoked exactly once by that call of fire.
C27_SelfUnsubscribeKeepsDispatchValid ==
  /\ ~evt.crashed
  /\ \A k \in DOMAIN evt.frames : ~evt.frames[k].readRemoved
  /\ evt.last.op = "fireEnd" =>
       /\ ~evt.last.readRemoved
       /\ evt.last.subscribed = {} =>
            \A h \in Range(evt.last.atStart) \ evt.last.unsubscribed :
              Invocations(evt.last.invoked, h) = 1

WithoutClause(qs, cl) ==
  [i \in DOMAIN qs |-> [qs[i] EXCEPT !.cls = SelectSeq(@, LAMBDA x : x # cl)]]

\* C29: add(c) followed at once by remove(c) restores the state of the
\* container, for the Active container and for the predicate-split Passive
\* container.  The state before the add is the state after it with c taken
\* out (members of every queue, size counter, balances), and a remove of c
\* that follows the add gives exactly that state; the add fires one added
\* event for c and the remove one removed event for c, and nothing else.
C29_AddThenRemoveRestores ==
  [][/\ lastOp'.op = "add" =>
          /\ queues = WithoutClause(queues', lastOp'.cl)
          /\ balances' = balances
          /\ lastOp'.cl \in Held(queues')
          /\ \A k \in DOMAIN lastOp'.fired :
               lastOp'.fired[k].event = "added" /\ lastOp'.fired[k].clause = lastOp'.cl
          /\ Len(lastOp'.fired) = (IF isOutermost THEN 1 ELSE 0)
     /\ (lastOp.op = "add" /\ lastOp'.op = "remove" /\ lastOp'.cl = lastOp.cl) =>
          /\ queues' = WithoutClause(queues, lastOp.cl)
          /\ balances' = balances
          /\ \A k \in DOMAIN lastOp'.fired :
               lastOp'.fired[k].event = "removed" /\ lastOp'.fired[k].clause = lastOp.cl
          /\ Len(lastOp'.fired) = (IF isOutermost THEN 1 ELSE 0)
     /\ lastOp'.op = "ActiveAdd" =>
          /\ active = SelectSeq(active', LAMBDA x : x # lastOp'.cl)
          /\ activeSize = activeSize' - 1
          /\ activeSize' = Len(active')
          /\ lastOp'.fired = <<Event("added", lastOp'.cl)>>
     /\ (lastOp.op = "ActiveAdd" /\ lastOp'.op = "ActiveRemove" /\ lastOp'.cl = lastOp.cl) =>
          /\ active' = SelectSeq(active, LAMBDA x : x # lastOp.cl)
          /\ activeSize' = activeSize - 1
          /\ activeSize' = Len(active')
          /\ lastOp'.fired = <<Event("removed", lastOp.cl)>>
    ]_vars

\* C29, witness: a clause has been added to the predicate-split container
\* and removed from it again while another clause stayed in its queues.
C29_Witness ==
  /\ lastOp.op = "remove"
  /\ lastOp.fired # <<>>
  /\ Held(queues) # {}
  /\ lastOp.cl \notin Held(queues)


\* The triples the extraction rule of the index yields for the clause:
\* superposition-from takes the rewritable non-variable subterms of the
\* selected literals, superposition-into their superposition left-hand
\* sides, demodulation-from the non-variable subterms of all the literals,
\* demodulation-into the demodulation left-hand sides of the literal of a
\* unit clause.
ExtractionRule(name, cl) ==
  LET sel == {Literals(cl)[i] : i \in 1 .. selected(cl)}
      all == Range(Literals(cl))
  IN  CASE name = "SuperpositionSubtermIndex" ->
             UNION {[term : Range(getRewritableSubtermIterator(lit)), literal : {lit},
                     clause : {cl}] : lit \in sel}
        [] name = "SuperpositionLHSIndex" ->
             UNION {[term : Range(getSuperpositionLHSIterator(lit)), literal : {lit},
                     clause : {cl}] : lit \in sel}
        [] name = "DemodulationSubtermIndex" ->
             UNION {[term : Range(NonVariableIterator(TermBank[lit].args, 1)), literal : {lit},
                     clause : {cl}] : lit \in all}
        [] name = "DemodulationLHSIndex" ->
             IF Len(Literals(cl)) = 1
               THEN [term : Range(getDemodulationLHSIterator(Literals(cl)[1])),
                     literal : {Literals(cl)[1]}, clause : {cl}]
               ELSE {}

\* The triples of the index that belong to the clause, each with the number
\* of times the index holds it.
TriplesOfClause(is, cl) ==
  [tr \in {t \in BagToSet(is) : t.clause = cl} |-> CopiesIn(tr, is)]

\* C30: the triples each of the four term indices holds are exactly those
\* its extraction rule yields for the clauses that are Active.  When a
\* clause is removed from Active, handleClause(c, false) takes out of each
\* index exactly what handleClause(c, true) had put in for that clause: no
\* triple of the clause is left and the triples of the other clauses are
\* the same as before; when a clause is added, the triples of the other
\* clauses are the same as before.
C30_IndicesHoldTheActiveClauses ==
  /\ [](\A name \in IndexNames :
          BagToSet(indices[name]) =
            UNION {ExtractionRule(name, cl) : cl \in Range(active)})
  /\ [][/\ \A cl \in Range(active) \ Range(active') : \A name \in IndexNames :
             /\ TriplesOfClause(indices'[name], cl) = EmptyBag
             /\ \A other \in Clauses \ {cl} :
                  TriplesOfClause(indices'[name], other) =
                    TriplesOfClause(indices[name], other)
        /\ \A cl \in Range(active') \ Range(active) : \A name \in IndexNames :
             \A other \in Clauses \ {cl} :
               TriplesOfClause(indices'[name], other) =
                 TriplesOfClause(indices[name], other)
       ]_vars

\* C30, witness: a clause with an unselected literal has been removed from
\* Active while a unit clause stays Active: every index still holds a
\* triple, the superposition indices fewer than the demodulation-from one.
C30_Witness ==
  /\ lastOp.op \in {"ActiveRemove", "discard"}
  /\ selected(lastOp.cl) < length(lastOp.cl)
  /\ active # <<>>
  /\ \A name \in IndexNames : indices[name] # EmptyBag
  /\ \E cl \in Range(active) : length(cl) = 1


\* C31: each index holds every term extracted from a literal of an Active
\* clause exactly once for that literal and clause: handling the added
\* event never inserts the same (term, literal, clause) triple twice.
C31_EachTripleStoredOnce ==
  \A name \in IndexNames : \A tr \in BagToSet(indices[name]) :
    CopiesIn(tr, indices[name]) = 1


\* C32: the executable exits with code 0 when no user error and no other
\* exception was raised, and with a non-zero code when one was raised, as
\* when an unsupported mode is requested.
C32_ExitCodeTellsErrors ==
  (lastOp.op = "main" /\ lastOp.at = "exited") =>
    (lastOp.exit = 0 <=> lastOp.exception = "none")


\* The container of the scenario: ratios "4,1", cutoffs "0.5,1.0", every
\* balance 0, holding a clause A whose best queue is queue 0 and a clause B
\* whose best queue is queue 1, added in this order and nothing else.
ScenarioHolds(A, B) ==
  /\ pc = "constructed"
  /\ optRatios = <<4, 1>>
  /\ optCutoffs = <<5, 10>>
  /\ \A i \in DOMAIN balances : balances[i] = 0
  /\ bestQueueHeuristics(A) = 0
  /\ bestQueueHeuristics(B) = 1
  /\ queues[0].cls = <<A>>
  /\ queues[1].cls = <<A, B>>

\* The scenario from that state on: two calls of popSelected, add of a
\* clause A2 that goes to queue 0, two more calls of popSelected.
ScenarioPops(A2) ==
  LET p1 == PopSelectedStep(balances, queues)
      p2 == PopSelectedStep(p1.balances, p1.queues)
      added == AddFrom(p2.queues, A2, bestQueueHeuristics(A2))
      p3 == PopSelectedStep(p2.balances, added)
      p4 == PopSelectedStep(p3.balances, p3.queues)
  IN  [first |-> p1.cl, second |-> p2.cl, third |-> p3.cl,
       fourth |-> IF isEmpty(p3.queues) THEN NoClause ELSE p4.cl]

\* C33, as the spec states it: with ratios "4,1" and cutoffs "0.5,1.0" the
\* internal weights are (1,4), niceness 0.2 goes to queue 0 and 0.8 to queue
\* 1; after add(A), add(B) the first popSelected returns A and the second
\* returns A; after adding A' the next two calls return A' and then B.
C33_ScenarioAsStated ==
  \A A \in Clauses, B \in Clauses : ScenarioHolds(A, B) =>
    /\ ratios = [i \in {0, 1} |-> IF i = 0 THEN 1 ELSE 4]
    /\ BestQueueFrom(<<2, 10>>, cutoffs, 0) = 0
    /\ BestQueueFrom(<<8, 10>>, cutoffs, 0) = 1
    /\ \A A2 \in Clauses \ {B} : bestQueueHeuristics(A2) = 0 =>
         ScenarioPops(A2) = [first |-> A, second |-> A, third |-> A2, fourth |-> B]

\* C33, amended: the internal weights are (1,4), niceness 0.2 goes to queue
\* 0 and 0.8 to queue 1; after add(A), add(B) the first popSelected returns A
\* and the second returns B, queue 1 then having the smaller balance and A
\* being in no queue any more; after adding A' the next popSelected returns
\* A' and the container is empty.
C33_ScenarioAmended ==
  \A A \in Clauses, B \in Clauses : ScenarioHolds(A, B) =>
    /\ ratios = [i \in {0, 1} |-> IF i = 0 THEN 1 ELSE 4]
    /\ BestQueueFrom(<<2, 10>>, cutoffs, 0) = 0
    /\ BestQueueFrom(<<8, 10>>, cutoffs, 0) = 1
    /\ \A A2 \in Clauses \ {B} : bestQueueHeuristics(A2) = 0 =>
         ScenarioPops(A2) = [first |-> A, second |-> B, third |-> A2, fourth |-> NoClause]

\* C33, witness: A and B have been added to the fresh container of the
\* scenario.
C33_Witness ==
  /\ lastOp.op = "add"
  /\ \E A \in Clauses, B \in Clauses : ScenarioHolds(A, B)


\* The run of the scenario: the seven clauses have been added to the
\* age/weight container with ratio (1:5) and six clauses have been taken.
AWScenarioDone ==
  /\ lastOp.op = "AWpopSelected"
  /\ ageWeightRatio = <<1, 5>>
  /\ lastOp.added = Len(AWClauses)
  /\ Len(lastOp.popped) = 6

\* C34, as the spec states it: with ratio (1:5), both balances from 0, the
\* side with the smaller balance chosen and ties broken by insertion order,
\* the first six calls of popSelected return the clause of weight 9 and age
\* 0, then five clauses of weight 1 and age 5.
C34_FirstSixAsStated ==
  AWScenarioDone =>
    /\ lastOp.popped[1] = AWClauses[1]
    /\ \A k \in 2 .. 6 :
         /\ weight(lastOp.popped[k]) = weight(AWClauses[3])
         /\ age(lastOp.popped[k]) = age(AWClauses[3])

\* C34, amended: the first call returns the old heavy clause (age side, the
\* balances being equal), the second the old light clause, the first
\* inserted of the lightest; the next four return young light clauses in
\* the order of their insertion.
C34_FirstSixAmended ==
  AWScenarioDone =>
    lastOp.popped = SubSeq(AWClauses, 1, 6)

\* C34, witness: the scenario has been run.
C34_Witness == AWScenarioDone


\* A triple of the demodulation-LHS index as the index is meant to hold it:
\* a demodulation LHS of the single literal of a unit clause.
IsUnitLHS(tr) ==
  /\ length(tr.clause) = 1
  /\ tr.literal = Literals(tr.clause)[1]
  /\ tr.term \in Range(getDemodulationLHSIterator(tr.literal))

\* C35: the demodulation-LHS index only ever holds terms of unit clauses.
\* Every triple in it is a demodulation LHS of the single literal of a unit
\* clause; a step that adds or removes only clauses whose length is not 1
\* leaves the index unchanged; and a triple whose number of copies changes
\* in a step belongs to a unit clause that the step added or removed.
C35_DemodulationLHSOfUnitClausesOnly ==
  /\ [](\A tr \in BagToSet(indices["DemodulationLHSIndex"]) : IsUnitLHS(tr))
  /\ [][LET D == "DemodulationLHSIndex"
            changed == (Range(active) \ Range(active')) \cup
                         (Range(active') \ Range(active))
        IN  /\ (\A cl \in changed : length(cl) # 1) => indices'[D] = indices[D]
            /\ \A tr \in BagToSet(indices[D]) \cup BagToSet(indices'[D]) :
                 CopiesIn(tr, indices[D]) # CopiesIn(tr, indices'[D]) =>
                   tr.clause \in changed /\ IsUnitLHS(tr)]_vars

\* C35, witness: a clause of more than one literal has just been added to
\* Active while the demodulation-LHS index holds the LHSs of a unit clause.
C35_Witness ==
  /\ lastOp.op = "ActiveAdd"
  /\ length(lastOp.cl) > 1
  /\ lastOp.cl \in Range(active)
  /\ indices["DemodulationLHSIndex"] # EmptyBag


\* The first two statements of popSelected, which select a queue by the
\* balances and charge it: st.balances the balances, st.selections the
\* number of times each queue has been selected.
BalanceSelect(st) ==
  LET queueIndex == MinElement(st.balances)
  IN  [balances |-> [st.balances EXCEPT ![queueIndex] = @ + ratios[queueIndex]],
       selections |-> [st.selections EXCEPT ![queueIndex] = @ + 1]]

\* The selections of n calls of popSelected, one after the other: those of
\* the first half of the calls, then those of the rest.
RECURSIVE BalanceSelects(_, _)
BalanceSelects(st, n) ==
  IF n = 0 THEN st
  ELSE IF n = 1 THEN BalanceSelect(st)
  ELSE CHOOSE after \in {BalanceSelects(half, n - (n \div 2)) :
                            half \in {BalanceSelects(st, n \div 2)}} : TRUE

RECURSIVE SumOfList(_, _)
SumOfList(rs, i) == IF i > Len(rs) THEN 0 ELSE rs[i] + SumOfList(rs, i + 1)

\* All balances of the container are equal.
BalancesEqual ==
  /\ pc = "constructed"
  /\ \A i, j \in DOMAIN balances : balances[i] = balances[j]

\* C36: weighted round-robin proportionality.  From a state in which all
\* balances are equal, the next r_1 + ... + r_N calls of popSelected select
\* queue i by the balances exactly r_i times, and after them every balance
\* has grown by L, the least common multiple of the ratios.
C36_RoundRobinProportional ==
  BalancesEqual =>
    LET after == BalanceSelects([balances |-> balances,
                                 selections |-> [i \in DOMAIN balances |-> 0]],
                                SumOfList(optRatios, 1))
    IN  \A i \in DOMAIN balances :
          /\ after.selections[i] = optRatios[i + 1]
          /\ after.balances[i] = balances[i] + LcmOfList(optRatios, 1)


\* C37: ActiveClauseContainer::onLimitsUpdated returns at once when the
\* change is LIMITS_LOOSENED, when there is no generating-literal index, or
\* when the limits are not both age-limited and weight-limited: the call
\* starts no pass, removes no clause from Active, takes nothing out of the
\* indices, changes no clause's store, and leaves the size counter and the
\* counter of discarded clauses as they were.
C37_OnLimitsUpdatedReturnsEarly ==
  [][(/\ lastOp'.op = "onLimitsUpdated"
      /\ \/ lastOp'.change = "LIMITS_LOOSENED"
         \/ ~gis.present
         \/ limits.ageLimit = NoLimit
         \/ limits.weightLimit = NoLimit) =>
       /\ lrs'.pc = "idle"
       /\ active' = active
       /\ activeSize' = activeSize
       /\ discardedNonRedundantClauses' = discardedNonRedundantClauses
       /\ indices' = indices
       /\ gis' = gis
       /\ store' = store]_vars

\* C37, witness: onLimitsUpdated has returned at once from a tightening of
\* the limits, with a generating-literal index that holds clauses and a
\* weight limit of 0 but no age limit.
C37_Witness ==
  /\ lastOp.op = "onLimitsUpdated"
  /\ lastOp.returned
  /\ lastOp.change = "LIMITS_TIGHTENED"
  /\ gis.present
  /\ gis.entries # {}
  /\ active # <<>>
  /\ limits.ageLimit = NoLimit
  /\ limits.weightLimit = 0


C39_OnlyOutermostFires ==
  (lastOp.op \in {"add", "remove", "popSelected"} /\ lastOp.cl # NoClause) =>
    IF isOutermost
      THEN /\ Len(lastOp.fired) = 1
           /\ lastOp.fired[1].clause = lastOp.cl
           /\ lastOp.fired[1].event =
                CASE lastOp.op = "add" -> "added"
                  [] lastOp.op = "remove" -> "removed"
                  [] lastOp.op = "popSelected" -> "selected"
      ELSE lastOp.fired = <<>>


\* C40: computeLCM(a, b) returns the least common multiple of a and b for
\* all positive a and b whose least common multiple fits a signed 32-bit
\* integer.  Checked on the calls the constructor makes for its ratios: a
\* is the least common multiple of the ratios before the i-th, b the i-th
\* ratio.
C40_ComputeLCMIsTheLcm ==
  pc = "constructed" =>
    \A i \in 1 .. Len(optRatios) :
      LET a == LcmOfList(SubSeq(optRatios, 1, i - 1), 1)
          b == optRatios[i]
      IN  (a > 0 /\ b > 0 /\ LcmOfList(<<a, b>>, 1) <= IntMax) =>
            computeLCM(a, b) = LcmOfList(<<a, b>>, 1)

=============================================================================
